---- MODULE Spec2Model ----
(***************************************************************************)
(* A model of the SolarForecast controller: the greedy battery optimizer   *)
(* (src/optimizer.js), the schedule store (src/db.js), the pipeline        *)
(* orchestrator (scheduler.js) and the Growatt Modbus TCP driver           *)
(* (src/inverters/growatt-modbus.js).                                      *)
(*                                                                         *)
(* Numbers.  JavaScript computes in IEEE doubles; the model computes the   *)
(* same expressions in exact rationals <<n, d>> (d > 0, lowest terms).     *)
(* Watts, watt-hours and prices of the inputs are integers; SOC values of  *)
(* a schedule row (one decimal in the source) are kept in tenths of a      *)
(* percent.                                                                *)
(***************************************************************************)
EXTENDS Integers, Sequences, FiniteSets, TLC

VARIABLES
    \* ---- configuration (read-only after startup) ----
    cfg,            \* config.battery / config.grid / config.consumption
    \* ---- store (src/db.js) ----
    prices,         \* price_readings: slot_ts -> spot_price, or Null when no row
    solar,          \* solar_readings: hour -> prod_forecast in kW, or Null
    schedule,       \* battery_schedule: slot_ts -> row, or Null when no row
    \* ---- optimizer runs ----
    ret,            \* what the last runOptimizer call returned (or that it threw)
    prevSchedule,   \* battery_schedule as it was when the last run started
    runs,           \* number of optimizer runs so far
    \* ---- orchestrator (scheduler.js) ----
    inverter,       \* config.inverter: driver brand (or Null), data_collection_only
    clock,          \* wall clock [hour, minute] of the last cron instant
    ticks,          \* number of cron instants since the process started
    due,            \* cron entries of this instant whose callback is still to be called
    hpc,            \* position of the quarter-hour handler and of the startup block
    pc,             \* per pipeline run: the await it is suspended at, "idle" or "done"
    res,            \* per pipeline run: "ok", "error" (an error was raised), or "none"
    logged,         \* per pipeline run: the status it upserted into the ledger, or "none"
    resets,         \* per pipeline run: outcomes of its resetToDefault attempts
    ledger,         \* pipeline_runs: pipeline -> "never_run", "ok" or "error"
    ledgerTs,       \* pipeline_runs: pipeline -> clock of the last run, or Null
    escaped,        \* runs whose pipeline function threw or rejected
    driverCalls,    \* driver operations invoked since the last cron instant
    failures,       \* number of operations that have failed so far
    \* ---- Modbus driver (src/inverters/growatt-modbus.js) ----
    now,            \* Date.now(), in milliseconds
    client,         \* the module variable client: Null or <<connection id>>
    conns,          \* per connection id: "unused", "connecting", "open", "closed"
    lastCmd,        \* the module variable lastCmd
    dcall,          \* per calling run: where its driver call is suspended
    \* ---- driver commands ----
    drvCfg,         \* config.inverter: charge_soc, discharge_soc (or Null), dry_run
    dclock,         \* the moment commands are called: UTC minute, zone offset
    nsent,          \* number of register writes transmitted so far
    dlast,          \* the record of the last command called
    ncalls,         \* number of commands called so far
    \* ---- external fetches (src/fetcher.js, src/prices/*.js) ----
    frun,           \* the pipeline run that fetches: its call, attempt and state
    flog,           \* the HTTP requests the run has made: <<call, outcome>>, in order
    nfetch,         \* number of fetching runs started so far
    \* ---- learning loop (solar_readings, correction_matrix[_smooth]) ----
    readings,       \* solar_readings: hour_ts -> row, or Null when no row
    matrix,         \* correction_matrix: <<month, day, hour>> -> cell
    smooth,         \* correction_matrix_smooth: <<day_of_year, hour>> -> cell, or Null
    lop,            \* the pipeline whose run was the last step
    nlearn,         \* number of pipeline runs so far
    \* ---- health endpoint (src/api.js) ----
    hrows,          \* pipeline_runs as getAllPipelineRuns returns it
    hnow,           \* Date.now() of the request, in seconds
    hres,           \* the response to the last GET /health, or Null
    \* ---- recency bias (src/model.js: computeRecencyBias) ----
    brows,          \* the rows getRecentActualsForBias returned
    bcfg,           \* config.learning.recency_bias
    bias,           \* what the last computeRecencyBias call returned, or Null
    \* ---- telemetry (src/inverters/growatt-modbus.js: getMetrics) ----
    mregs,          \* the register pairs read: solar, load and grid import power
    metrics         \* what the last getMetrics call returned, or Null

optVars == <<cfg, prices, solar, schedule, ret, prevSchedule, runs>>

orchVars == <<inverter, clock, ticks, due, hpc, pc, res, logged, resets, ledger, ledgerTs,
              escaped, driverCalls, failures>>

drvVars == <<now, client, conns, lastCmd, dcall>>

cmdVars == <<drvCfg, dclock, nsent, dlast, ncalls>>

fetchVars == <<frun, flog, nfetch>>

learnVars == <<readings, matrix, smooth, lop, nlearn>>

healthVars == <<hrows, hnow, hres>>

biasVars == <<brows, bcfg, bias>>

metricVars == <<mregs, metrics>>

vars == <<cfg, prices, solar, schedule, ret, prevSchedule, runs,
          inverter, clock, ticks, due, hpc, pc, res, logged, resets, ledger, ledgerTs,
          escaped, driverCalls, failures,
          now, client, conns, lastCmd, dcall,
          drvCfg, dclock, nsent, dlast, ncalls,
          frun, flog, nfetch,
          readings, matrix, smooth, lop, nlearn,
          hrows, hnow, hres,
          brows, bcfg, bias,
          mregs, metrics>>

\* An optional value (null / undefined / no row in the source) is the empty
\* sequence; a present value v is <<v>>.
Null == <<>>
Some(v) == <<v>>
Opt(S) == {Null} \cup {Some(v) : v \in S}

(***************************************************************************)
(* Exact rational arithmetic.                                              *)
(***************************************************************************)
Abs(x) == IF x < 0 THEN -x ELSE x

RECURSIVE GCD(_, _)
GCD(a, b) == IF b = 0 THEN a ELSE GCD(b, a % b)

Rat(n, d) ==
    IF d = 1 THEN <<n, 1>>
    ELSE LET s == IF d < 0 THEN -1 ELSE 1
             g == GCD(Abs(n), Abs(d))
         IN  <<(s * n) \div g, (s * d) \div g>>

I2R(n) == <<n, 1>>
RAdd(a, b) == IF a[2] = b[2] THEN Rat(a[1] + b[1], a[2])
              ELSE LET g == GCD(a[2], b[2])
                   IN  Rat(a[1] * (b[2] \div g) + b[1] * (a[2] \div g),
                           (a[2] \div g) * b[2])
RSub(a, b) == IF a[2] = b[2] THEN Rat(a[1] - b[1], a[2])
              ELSE LET g == GCD(a[2], b[2])
                   IN  Rat(a[1] * (b[2] \div g) - b[1] * (a[2] \div g),
                           (a[2] \div g) * b[2])
RMul(a, b) == Rat(a[1] * b[1], a[2] * b[2])
RDiv(a, b) == Rat(a[1] * b[2], a[2] * b[1])
RLt(a, b) == a[1] * b[2] < b[1] * a[2]
RLe(a, b) == a[1] * b[2] <= b[1] * a[2]
RMin(a, b) == IF RLe(a, b) THEN a ELSE b
RMax(a, b) == IF RLe(a, b) THEN b ELSE a
RPos(a) == a[1] > 0

\* Math.round: the nearest integer, halves towards +infinity: floor(x + 1/2).
\* (\div is floor division in TLA+.)
MathRound(a) == (2 * a[1] + a[2]) \div (2 * a[2])

(***************************************************************************)
(* Bounds and input domains of the optimizer model.                        *)
(***************************************************************************)
\* Hours of the price/solar tables the model keeps (timestamps 0 .. 4*NumHours-1).
NumHours == 2
\* Optimizer runs per behaviour in the store specification.
MaxRuns == 2

\* interpolateTo15Min: the four quarter-hour slots '00','15','30','45' of an hour.
SlotsPerHour == 4

\* A timestamp "YYYY-MM-DDTHH:MM" is the number of quarter hours since the
\* start of the modelled day; string comparison of the source's timestamps is
\* integer comparison here.
Ts == 0 .. (NumHours * SlotsPerHour - 1)
Hours == 0 .. (NumHours - 1)
HourOf(ts) == ts \div SlotsPerHour
HourTs(h) == h * SlotsPerHour

\* Timestamps at which the model lets a price row exist: the first two
\* quarter hours of the first hour and the start of every later hour.
PriceTs == {0, 1} \cup {HourTs(h) : h \in Hours}
\* Spot prices in 1/100 of the currency unit per kWh (negative prices occur).
PriceLevels == {-60, 10, 100}
\* prod_forecast of a reading, in kW.
SolarLevels == {3}
\* consumption_w of an hourly estimate.
ConsumptionLevels == {3000}
\* options.startSoc: the register value read from the inverter, in percent.
StartSocLevels == {0, 100}
\* Windows [from, to) the optimizer is run over.
Windows == {<<0, NumHours * SlotsPerHour>>}

\* config.js: battery, grid and consumption sections.  ConfigShipped is the
\* file as shipped (prices in 1/100 SEK); the others vary what startup
\* validation lets vary.
ConfigShipped ==
    [capacity_kwh |-> 10, max_charge_w |-> 5000, max_discharge_w |-> 5000,
     efficiency |-> <<9, 10>>, min_soc |-> 10, max_soc |-> 95,
     sell_enabled |-> FALSE, sell_price_factor |-> <<4, 5>>,
     transfer_import_kwh |-> 5, transfer_export_kwh |-> 0,
     energy_tax_kwh |-> 36, flat_watts |-> 800]
ConfigSmall ==
    [ConfigShipped EXCEPT !.capacity_kwh = 1, !.sell_enabled = TRUE]
ConfigLossless ==
    [ConfigShipped EXCEPT !.capacity_kwh = 1, !.efficiency = <<1, 1>>,
                          !.min_soc = 0, !.max_soc = 100,
                          !.max_charge_w = 2000]
Configs == {ConfigShipped, ConfigSmall, ConfigLossless}

(***************************************************************************)
(* Store facade (src/db.js): the reads the optimizer makes.                *)
(***************************************************************************)
\* SELECT ... FROM price_readings WHERE slot_ts >= ? AND slot_ts < ? ORDER BY slot_ts
RECURSIVE getPricesForRange(_, _)
getPricesForRange(fromTs, toTs) ==
    IF fromTs >= toTs THEN <<>>
    ELSE (IF fromTs \in Ts /\ prices[fromTs] # Null
          THEN <<[slot_ts |-> fromTs, spot_price |-> prices[fromTs][1]]>>
          ELSE <<>>) \o getPricesForRange(fromTs + 1, toTs)

\* SELECT ... FROM solar_readings WHERE hour_ts >= ? AND hour_ts < ?
\* The hours whose row (keyed "HH:00") lies in [fromTs, toTs).
getReadingsForForecast(fromTs, toTs) ==
    {h \in Hours : HourTs(h) >= fromTs /\ HourTs(h) < toTs}

\* SELECT ... FROM battery_schedule WHERE slot_ts >= ? AND slot_ts < ?
getScheduleForRange(fromTs, toTs) ==
    {ts \in Ts : ts >= fromTs /\ ts < toTs /\ schedule[ts] # Null}

(***************************************************************************)
(* The optimizer (src/optimizer.js, runOptimizer).                         *)
(***************************************************************************)
\* interpolateTo15Min: hourly values copied to the four slots of their hour.
\* hourly is a function from a set of hours to values; the result is a
\* function from the slots of those hours.
interpolateTo15Min(hourly) ==
    [ts \in {t \in Ts : HourOf(t) \in DOMAIN hourly} |-> hourly[HourOf(ts)]]

\* Step 1: solarMap.  prod_forecast (kW) -> W, a missing forecast counts 0.
solarMap(fromTs, toTs) ==
    interpolateTo15Min(
        [h \in getReadingsForForecast(fromTs, toTs) |->
            IF solar[h] # Null THEN solar[h][1] * 1000 ELSE 0])

\* Step 1: consumptionMap, from the estimates handed in (hour -> W or Null
\* when the list has no entry for the hour).
consumptionMap(consumptionEstimates) ==
    interpolateTo15Min(
        [h \in {x \in DOMAIN consumptionEstimates : consumptionEstimates[x] # Null}
            |-> consumptionEstimates[h][1]])

\* Step 2: one slot object per price row.
buildSlot(p, sMap, cMap) ==
    LET solarW == IF p.slot_ts \in DOMAIN sMap THEN sMap[p.slot_ts] ELSE 0
        consW  == IF p.slot_ts \in DOMAIN cMap THEN cMap[p.slot_ts]
                  ELSE cfg.flat_watts
    IN  [slot_ts |-> p.slot_ts,
         spot_price |-> p.spot_price,
         buy_price |-> p.spot_price + cfg.transfer_import_kwh + cfg.energy_tax_kwh,
         sell_price |-> IF cfg.sell_enabled
                        THEN RSub(RMul(I2R(p.spot_price), cfg.sell_price_factor),
                                  I2R(cfg.transfer_export_kwh))
                        ELSE I2R(0),
         solar_watts |-> solarW,
         consumption_watts |-> consW,
         net_production |-> solarW - consW,
         action |-> "idle",
         watts |-> 0,
         soc_start |-> 0,
         soc_end |-> 0]

buildSlots(fromTs, toTs, consumptionEstimates) ==
    LET ps   == getPricesForRange(fromTs, toTs)
        sMap == solarMap(fromTs, toTs)
        cMap == consumptionMap(consumptionEstimates)
    IN  [i \in 1 .. Len(ps) |-> buildSlot(ps[i], sMap, cMap)]

\* Derived battery quantities (step 3), in Wh.
slotHours == <<1, 4>>
capacityWh == cfg.capacity_kwh * 1000
minSocWh == RMul(Rat(cfg.min_soc, 100), I2R(capacityWh))
maxSocWh == RMul(Rat(cfg.max_soc, 100), I2R(capacityWh))
maxChargeWh == RMul(I2R(cfg.max_charge_w), slotHours)
maxDischargeWh == RMul(I2R(cfg.max_discharge_w), slotHours)

RECURSIVE SumBuy(_, _)
SumBuy(slots, i) == IF i = 0 THEN 0 ELSE slots[i].buy_price + SumBuy(slots, i - 1)

avgBuyPrice(slots) == Rat(SumBuy(slots, Len(slots)), Len(slots))
\* Mutant of minSpread: the loss factor with its sign turned, efficiency - 1.
minSpread_Gain(slots) ==
    RMul(avgBuyPrice(slots), RSub(cfg.efficiency, I2R(1)))

\* const minSpread = avgBuyPrice * (1 / bat.efficiency - 1);
minSpread(slots) ==
    RMul(avgBuyPrice(slots), RSub(RDiv(I2R(1), cfg.efficiency), I2R(1)))

\* avoidable_wh = min(max(0, -net), max_discharge_w) * slotHours
avoidable_wh(slot) ==
    LET gridDeficitW == IF -slot.net_production > 0 THEN -slot.net_production ELSE 0
        capped == IF gridDeficitW < cfg.max_discharge_w THEN gridDeficitW
                  ELSE cfg.max_discharge_w
    IN  RMul(I2R(capped), slotHours)

\* Array.prototype.sort is stable: x is placed before the first element that
\* must follow it.  after(y, x) says y sorts strictly after x.
RECURSIVE insertStable(_, _, _, _)
insertStable(s, x, slots, desc) ==
    IF s = <<>> THEN <<x>>
    ELSE LET y == Head(s)
             yAfterX == IF desc THEN slots[y].buy_price < slots[x].buy_price
                        ELSE slots[y].buy_price > slots[x].buy_price
         IN  IF yAfterX THEN <<x>> \o s
             ELSE <<y>> \o insertStable(Tail(s), x, slots, desc)

RECURSIVE sortByBuy(_, _, _)
sortByBuy(idxs, slots, desc) ==
    IF idxs = <<>> THEN <<>>
    ELSE insertStable(sortByBuy(SubSeq(idxs, 1, Len(idxs) - 1), slots, desc),
                      idxs[Len(idxs)], slots, desc)

\* Discharge candidates: slots with a grid deficit, most expensive first.
dischargeOrder(slots) ==
    sortByBuy(SelectSeq([i \in 1 .. Len(slots) |-> i],
                        LAMBDA i : RPos(avoidable_wh(slots[i]))), slots, TRUE)

\* Mutant of chargeOrder: every slot is a charge candidate.
chargeOrder_All(slots) ==
    sortByBuy([i \in 1 .. Len(slots) |-> i], slots, FALSE)

\* Charge candidates: slots without solar surplus, cheapest first.
chargeOrder(slots) ==
    sortByBuy(SelectSeq([i \in 1 .. Len(slots) |-> i],
                        LAMBDA i : slots[i].net_production <= 0), slots, FALSE)

\* Step 3: the pairing loop.  st = [ci, di, chargedWh, chargeSlots,
\* dischargeSlots]; ci and di count the candidates already passed.
RECURSIVE pairLoop(_, _, _, _)
pairLoop(slots, cOrd, dOrd, st) ==
    LET remainingCapacityWh == RSub(maxSocWh, minSocWh)
    IN
    IF ~(st.ci < Len(cOrd) /\ st.di < Len(dOrd)
         /\ RLt(st.chargedWh, remainingCapacityWh))
    THEN st
    ELSE
      LET cIdx == cOrd[st.ci + 1]
          dIdx == dOrd[st.di + 1]
      IN
      IF cIdx = dIdx THEN pairLoop(slots, cOrd, dOrd, [st EXCEPT !.ci = @ + 1])
      ELSE
        LET spread == slots[dIdx].buy_price - slots[cIdx].buy_price
        IN
        IF RLe(I2R(spread), minSpread(slots)) THEN st
        ELSE
          LET dischargeWh == RMin(avoidable_wh(slots[dIdx]),
                                  RMin(maxDischargeWh,
                                       RSub(remainingCapacityWh, st.chargedWh)))
              chargeWh == RMin(RDiv(dischargeWh, cfg.efficiency), maxChargeWh)
          IN
          IF ~RPos(chargeWh)
          THEN pairLoop(slots, cOrd, dOrd, [st EXCEPT !.di = @ + 1])
          ELSE pairLoop(slots, cOrd, dOrd,
                 [ci |-> st.ci + 1, di |-> st.di + 1,
                  chargedWh |-> RAdd(st.chargedWh, chargeWh),
                  chargeSlots |-> Append(st.chargeSlots, [idx |-> cIdx, wh |-> chargeWh]),
                  dischargeSlots |-> Append(st.dischargeSlots, [idx |-> dIdx, wh |-> dischargeWh])])

greedyPairs(slots) ==
    pairLoop(slots, chargeOrder(slots), dischargeOrder(slots),
             [ci |-> 0, di |-> 0, chargedWh |-> I2R(0),
              chargeSlots |-> <<>>, dischargeSlots |-> <<>>])

\* "Apply charge_grid actions", then "Apply discharge actions", each list in
\* order, a later assignment overwriting an earlier one.
RECURSIVE applyPairs(_, _, _)
applyPairs(slots, list, action) ==
    IF list = <<>> THEN slots
    ELSE applyPairs(
           [slots EXCEPT ![Head(list).idx] =
               [@ EXCEPT !.action = action,
                         !.watts = MathRound(RDiv(Head(list).wh, slotHours))]],
           Tail(list), action)

\* "Handle solar surplus": an idle slot with net > 0 charges from solar.
applySolarSurplus(slots) ==
    [i \in DOMAIN slots |->
        IF slots[i].action = "idle" /\ slots[i].net_production > 0
        THEN [slots[i] EXCEPT !.action = "charge_solar",
                 !.watts = IF slots[i].net_production < cfg.max_charge_w
                           THEN slots[i].net_production ELSE cfg.max_charge_w]
        ELSE slots[i]]

assignActions(slots) ==
    LET pairs == greedyPairs(slots)
    IN  applySolarSurplus(
            applyPairs(applyPairs(slots, pairs.chargeSlots, "charge_grid"),
                       pairs.dischargeSlots, "discharge"))

\* Mutant of startSocWh: the live SOC is taken as read, without the clamp.
startSocWh_Unclamped(startSoc) ==
    IF startSoc # Null
    THEN RMul(Rat(startSoc[1], 100), I2R(capacityWh))
    ELSE minSocWh

\* Step 4: the starting energy of the forward pass.
startSocWh(startSoc) ==
    IF startSoc # Null
    THEN RMax(minSocWh, RMin(maxSocWh, RMul(Rat(startSoc[1], 100), I2R(capacityWh))))
    ELSE minSocWh

\* Mutant of socTenths: the SOC recorded to the whole percent.
socTenths_Whole(currentSocWh) ==
    10 * MathRound(RMul(RDiv(currentSocWh, I2R(capacityWh)), I2R(100)))

\* Math.round((currentSocWh / capacityWh) * 100 * 10) / 10, kept in tenths of a percent.
socTenths(currentSocWh) ==
    MathRound(RMul(RDiv(currentSocWh, I2R(capacityWh)), I2R(1000)))

\* Mutant of sellWhenFull: a full battery always turns the surplus slot
\* into a sell slot.
sellWhenFull_Always(slot) == TRUE

\* Battery full: if (grid.sell_enabled && slot.sell_price > 0) sell.
sellWhenFull(slot) == cfg.sell_enabled /\ RPos(slot.sell_price)

\* One iteration of the forward pass: the slot as left by the switch, and the
\* energy after it.
forwardStep(slot, currentSocWh) ==
    LET slotWh == RMul(I2R(slot.watts), slotHours)
        idle(sl) == [sl EXCEPT !.action = "idle", !.watts = 0]
        out ==
          CASE slot.action = "charge_grid" ->
                 LET chargeWh == RMin(RMul(slotWh, cfg.efficiency),
                                      RSub(maxSocWh, currentSocWh))
                 IN  IF ~RPos(chargeWh) THEN [slot |-> idle(slot), soc |-> currentSocWh]
                     ELSE [slot |-> [slot EXCEPT !.watts =
                                        MathRound(RDiv(RDiv(chargeWh, slotHours), cfg.efficiency))],
                           soc |-> RAdd(currentSocWh, chargeWh)]
            [] slot.action = "charge_solar" ->
                 LET chargeWh == RMin(slotWh, RSub(maxSocWh, currentSocWh))
                 IN  IF ~RPos(chargeWh)
                     THEN IF sellWhenFull(slot)
                          THEN [slot |-> [slot EXCEPT !.action = "sell",
                                    !.watts = IF slot.net_production < cfg.max_discharge_w
                                              THEN slot.net_production
                                              ELSE cfg.max_discharge_w],
                                soc |-> currentSocWh]
                          ELSE [slot |-> idle(slot), soc |-> currentSocWh]
                     ELSE [slot |-> [slot EXCEPT !.watts = MathRound(RDiv(chargeWh, slotHours))],
                           soc |-> RAdd(currentSocWh, chargeWh)]
            [] slot.action \in {"discharge", "sell"} ->
                 LET drawnWh == RMin(slotWh, RSub(currentSocWh, minSocWh))
                 IN  IF ~RPos(drawnWh) THEN [slot |-> idle(slot), soc |-> currentSocWh]
                     ELSE [slot |-> [slot EXCEPT !.watts = MathRound(RDiv(drawnWh, slotHours))],
                           soc |-> RSub(currentSocWh, drawnWh)]
            [] OTHER -> [slot |-> slot, soc |-> currentSocWh]
    IN  [slot |-> [out.slot EXCEPT !.soc_start = socTenths(currentSocWh),
                                   !.soc_end = socTenths(out.soc)],
         soc |-> out.soc]

\* Mutant of forwardPass: every slot starts from the energy the pass began
\* with, instead of the energy the previous slot left.
RECURSIVE forwardPass_NoCarry(_, _, _)
forwardPass_NoCarry(slots, i, currentSocWh) ==
    IF i > Len(slots) THEN <<>>
    ELSE <<forwardStep(slots[i], currentSocWh).slot>>
            \o forwardPass_NoCarry(slots, i + 1, currentSocWh)

\* The forward pass over slots i .. Len(slots), chronologically.
RECURSIVE forwardPass(_, _, _)
forwardPass(slots, i, currentSocWh) ==
    IF i > Len(slots) THEN <<>>
    ELSE LET r == forwardStep(slots[i], currentSocWh)
         IN  <<r.slot>> \o forwardPass(slots, i + 1, r.soc)

\* Step 6: the row written for a slot.
dbRow(s) ==
    [slot_ts |-> s.slot_ts, action |-> s.action, watts |-> s.watts,
     soc_start |-> s.soc_start, soc_end |-> s.soc_end,
     price_kwh |-> s.spot_price, solar_watts |-> s.solar_watts,
     consumption_watts |-> s.consumption_watts]

\* Step 5: what one slot adds to costWithout and to costWith, in 1/100 of
\* the currency unit (prices are per kWh, energies in kWh).
slotKwh(watts) == Rat(watts * slotHours[1], slotHours[2] * 1000)

gridNeededKwh(slot) ==
    LET covered == IF slot.solar_watts < slot.consumption_watts
                   THEN slot.solar_watts ELSE slot.consumption_watts
    IN  RSub(slotKwh(slot.consumption_watts), slotKwh(covered))

slotCostWithout(slot) ==
    RMul(RMax(I2R(0), gridNeededKwh(slot)), I2R(slot.buy_price))

slotCostWith(slot) ==
    LET base == slotCostWithout(slot)
    IN  CASE slot.action = "charge_grid" ->
               RAdd(base, RMul(slotKwh(slot.watts), I2R(slot.buy_price)))
          [] slot.action = "discharge" ->
               RMul(RMax(I2R(0), RSub(gridNeededKwh(slot), slotKwh(slot.watts))),
                    I2R(slot.buy_price))
          [] slot.action = "sell" ->
               RSub(base, RMul(slotKwh(slot.watts), slot.sell_price))
          [] OTHER -> base

RECURSIVE sumCost(_, _, _)
sumCost(slots, i, with) ==
    IF i = 0 THEN I2R(0)
    ELSE RAdd(sumCost(slots, i - 1, with),
              IF with THEN slotCostWith(slots[i]) ELSE slotCostWithout(slots[i]))

\* The summary object; Math.round(x * 100) / 100 of an amount in currency
\* units is the amount in 1/100 units rounded to an integer.
savingsSummary(slots) ==
    LET costWithout == sumCost(slots, Len(slots), FALSE)
        costWith == sumCost(slots, Len(slots), TRUE)
    IN  [estimated_cost_without_battery |-> MathRound(costWithout),
         estimated_cost_with_battery |-> MathRound(costWith),
         estimated_savings |-> MathRound(RSub(costWithout, costWith))]

\* Mutant of computeSummary: the summary taken from the slots as the
\* pairing left them, before the forward pass.
computeSummary_PrePass(paired, done) == savingsSummary(paired)

\* Step 5 runs over the slots array after the forward pass has rewritten it
\* in place: paired is the array as the pairing left it, done as the forward
\* pass left it.
computeSummary(paired, done) == savingsSummary(done)

\* Steps 1-3: the slots with the actions the pairing and the surplus rule
\* assigned.
pairedSlots(fromTs, toTs, consumptionEstimates) ==
    assignActions(buildSlots(fromTs, toTs, consumptionEstimates))

\* Steps 1-4: the slots as the forward pass left them.
slotsAfterPass(fromTs, toTs, consumptionEstimates, startSoc) ==
    forwardPass(pairedSlots(fromTs, toTs, consumptionEstimates),
                1, startSocWh(startSoc))

\* Step 6: the rows of the schedule.
scheduleRows(done) == [i \in 1 .. Len(done) |-> dbRow(done[i])]

\* Steps 1-6 without the writes: the rows of the schedule.
computeSchedule(fromTs, toTs, consumptionEstimates, startSoc) ==
    scheduleRows(slotsAfterPass(fromTs, toTs, consumptionEstimates, startSoc))

(***************************************************************************)
(* Store facade (src/db.js): the schedule writes.                          *)
(***************************************************************************)
\* DELETE FROM battery_schedule WHERE slot_ts >= ? AND slot_ts < ?
deleteScheduleForRange_All(tbl, fromTs, toTs) == [ts \in Ts |-> Null]

deleteScheduleForRange(tbl, fromTs, toTs) ==
    [ts \in Ts |-> IF ts >= fromTs /\ ts < toTs THEN Null ELSE tbl[ts]]

\* One transaction upserting every row, keyed by slot_ts.
upsertScheduleBatch(tbl, rows) ==
    [ts \in Ts |->
        IF \E i \in DOMAIN rows : rows[i].slot_ts = ts
        THEN Some(rows[CHOOSE i \in DOMAIN rows : rows[i].slot_ts = ts])
        ELSE tbl[ts]]

\* Where a storage error may strike a run: nowhere, in the price read, in the
\* DELETE, or inside the upsert transaction (which then rolls back).
StorageFailures == {"none", "read", "delete", "upsert"}

\* Mutant of noPriceReturn: an all-zero summary instead of none.
noPriceReturn_ZeroSummary(call) ==
    [status |-> "returned", schedule |-> <<>>,
     summary |-> Some([estimated_cost_without_battery |-> 0,
                       estimated_cost_with_battery |-> 0,
                       estimated_savings |-> 0]),
     call |-> call]

\* if (prices.length === 0) return { schedule: [], summary: null };
noPriceReturn(call) ==
    [status |-> "returned", schedule |-> <<>>, summary |-> Null, call |-> call]

\* runOptimizer(fromTs, toTs, consumptionEstimates, options), with the storage
\* failure (if any) that strikes it.
runOptimizer(fromTs, toTs, consumptionEstimates, startSoc, fail) ==
    LET call == [fromTs |-> fromTs, toTs |-> toTs, startSoc |-> startSoc,
                 consumptionEstimates |-> consumptionEstimates]
        threw == [status |-> "threw", schedule |-> <<>>, summary |-> Null,
                  call |-> call]
    IN
    /\ prevSchedule' = schedule
    /\ runs' = runs + 1
    /\ UNCHANGED <<cfg, prices, solar>>
    /\ IF fail = "read" THEN
          /\ ret' = threw
          /\ schedule' = schedule
       ELSE IF getPricesForRange(fromTs, toTs) = <<>> THEN
          /\ ret' = noPriceReturn(call)
          /\ schedule' = schedule
       ELSE
          \* The arrays are bound as values, so that each is computed once.
          \E done \in {slotsAfterPass(fromTs, toTs, consumptionEstimates, startSoc)} :
          \E dbRows \in {scheduleRows(done)} :
              IF fail = "delete" THEN
                 /\ ret' = threw
                 /\ schedule' = schedule
              ELSE IF fail = "upsert" THEN
                 /\ ret' = threw
                 /\ schedule' = deleteScheduleForRange(schedule, fromTs, toTs)
              ELSE
                 /\ ret' = [status |-> "returned", schedule |-> dbRows,
                             summary |-> Some(computeSummary(
                                 pairedSlots(fromTs, toTs, consumptionEstimates),
                                 done)),
                             call |-> call]
                 /\ schedule' = upsertScheduleBatch(
                        deleteScheduleForRange(schedule, fromTs, toTs), dbRows)

(***************************************************************************)
(* The pipeline orchestrator (scheduler.js).  Node runs the program on one *)
(* thread: the code between two awaits is one step, and a pipeline run is  *)
(* suspended at an await until the awaited operation settles.  A run is    *)
(* named after what started it: c_* by a cron entry of its own, q_* by the *)
(* quarter-hour handler, s_* by the startup block.                         *)
(***************************************************************************)
MaxTicks == 1

\* At most this many operations (network, Modbus, storage) fail in one
\* execution of the program.
MaxFailures == 2

day_ahead_hour == 13

Pipelines == {"fetch", "learn", "smooth", "battery", "snapshot", "consumption",
              "execute"}

CronEntries == {"fetch", "learn", "smooth", "dayahead", "hourly", "consumption",
                "quarter"}

\* The cron patterns: '0 */6 * * *', '0 * * * *', '0 2 * * *',
\* '15 <day_ahead_hour> * * *', '30 * * * *', '5 * * * *', '*/15 * * * *'.
cronMatches(entry, t) ==
    CASE entry = "fetch"       -> t.minute = 0 /\ t.hour % 6 = 0
      [] entry = "learn"       -> t.minute = 0
      [] entry = "smooth"      -> t.minute = 0 /\ t.hour = 2
      [] entry = "dayahead"    -> t.minute = 15 /\ t.hour = day_ahead_hour
      [] entry = "hourly"      -> t.minute = 30
      [] entry = "consumption" -> t.minute = 5
      [] entry = "quarter"     -> t.minute % 15 = 0

\* The minutes of an hour at which some pattern matches, and the instant
\* that follows an instant.
nextInstant(t) ==
    CASE t.minute = 0  -> [hour |-> t.hour, minute |-> 5]
      [] t.minute = 5  -> [hour |-> t.hour, minute |-> 15]
      [] t.minute = 15 -> [hour |-> t.hour, minute |-> 30]
      [] t.minute = 30 -> [hour |-> t.hour, minute |-> 45]
      [] t.minute = 45 -> [hour |-> (t.hour + 1) % 24, minute |-> 0]

\* The cron instant that precedes the start of the process.
StartClocks == {[hour |-> 23, minute |-> 45], [hour |-> 1, minute |-> 45],
                [hour |-> 13, minute |-> 5], [hour |-> 0, minute |-> 15],
                [hour |-> 0, minute |-> 0]}

CronRuns == {"c_fetch", "c_learn", "c_smooth", "c_dayahead", "c_hourly",
             "c_consumption"}
QuarterRuns == {"q_snapshot", "q_execute", "q_battery"}
StartupRuns == {"s_fetch", "s_snapshot", "s_consumption", "s_battery1",
                "s_execute", "s_battery2"}
RunIds == CronRuns \cup QuarterRuns \cup StartupRuns

\* The pipeline function a run executes.
Kind(r) ==
    CASE r \in {"c_fetch", "s_fetch"} -> "fetch"
      [] r = "c_learn" -> "learn"
      [] r = "c_smooth" -> "smooth"
      [] r \in {"c_dayahead", "c_hourly", "q_battery", "s_battery1", "s_battery2"}
            -> "battery"
      [] r \in {"q_snapshot", "s_snapshot"} -> "snapshot"
      [] r \in {"c_consumption", "s_consumption"} -> "consumption"
      [] r \in {"q_execute", "s_execute"} -> "execute"

\* The cron entry (or the startup block) that started a run.
Entry(r) ==
    CASE r = "c_fetch" -> "fetch"
      [] r = "c_learn" -> "learn"
      [] r = "c_smooth" -> "smooth"
      [] r = "c_dayahead" -> "dayahead"
      [] r = "c_hourly" -> "hourly"
      [] r = "c_consumption" -> "consumption"
      [] r \in QuarterRuns -> "quarter"
      [] r \in StartupRuns -> "startup"

RunsOf(kind) == {r \in RunIds : Kind(r) = kind}

InProgress(r) == pc[r] \notin {"idle", "done"}

\* getDriver(): the driver module of config.inverter.brand, or null.
getDriver == inverter.brand

\* The guard of the dispatch part of the quarter-hour handler and of the
\* startup block: if (!config.inverter.data_collection_only).
dispatchEnabled_Always == TRUE

dispatchEnabled == ~inverter.data_collection_only

\* `await p` resumes the caller once the awaited pipeline run has settled.
awaited_FireAndForget(r) == TRUE

awaited(r) == pc[r] = "done"

\* Where a run is after the synchronous prefix of its pipeline function: at
\* its first await, or already returned (no driver configured).
firstAwait(kind) ==
    CASE kind = "fetch" -> "fetchWeather"
      [] kind = "battery" -> "fetchPrices"
      [] kind = "snapshot" -> IF getDriver = Null THEN "done" ELSE "getEnergyTotals"
      [] kind = "consumption" -> IF getDriver = Null THEN "done" ELSE "fetchTemp"
      [] kind = "execute" -> IF getDriver = Null THEN "done" ELSE "getState"

\* The driver operation that synchronous prefix invokes.
firstCall(kind) ==
    CASE kind = "snapshot" /\ getDriver # Null -> {"getEnergyTotals"}
      [] kind = "execute" /\ getDriver # Null -> {"getState"}
      [] OTHER -> {}

\* recordPipelineRun(name, status): upsert the pipeline's ledger row.
recordPipelineRun(l, name, status) == [l EXCEPT ![name] = status]

\* ... and its last run time, the time of the upsert.
recordRunTime(lt, name, t) == [lt EXCEPT ![name] = Some(t)]

\* The tail every pipeline but execute shares:
\*   try { <body>; recordPipelineRun(name) }
\*   catch (err) { log.error(...); recordPipelineRun(name, 'error') }
\* bodyOk: the body raised no error; okWrite / errWrite: the ledger write in
\* the try block / in the catch block succeeded.  An error raised inside the
\* catch block leaves the pipeline function.
FinishRun(r, bodyOk, okWrite, errWrite) ==
    LET good == bodyOk /\ okWrite
        status == IF good THEN "ok" ELSE IF errWrite THEN "error" ELSE "none"
        failed == IF good THEN 0 ELSE IF errWrite THEN 1 ELSE 2
    IN
    /\ failures + failed <= MaxFailures
    /\ failures' = failures + failed
    /\ pc' = [pc EXCEPT ![r] = "done"]
    /\ res' = [res EXCEPT ![r] = IF good THEN "ok" ELSE "error"]
    /\ logged' = [logged EXCEPT ![r] = status]
    /\ ledger' = IF status = "none" THEN ledger
                 ELSE recordPipelineRun(ledger, Kind(r), status)
    /\ ledgerTs' = IF status = "none" THEN ledgerTs
                   ELSE recordRunTime(ledgerTs, Kind(r), clock)
    /\ escaped' = IF status = "none" THEN escaped \cup {r} ELSE escaped

\* The variables an orchestrator step leaves alone whatever it does.
OrchFrame ==
    /\ UNCHANGED <<inverter, clock, ticks>>
    /\ UNCHANGED optVars
    /\ UNCHANGED drvVars
    /\ UNCHANGED cmdVars
    /\ UNCHANGED fetchVars
    /\ UNCHANGED learnVars
    /\ UNCHANGED healthVars
    /\ UNCHANGED biasVars
    /\ UNCHANGED metricVars

\* One more operation fails, if the execution may still have a failure.
Fail ==
    /\ failures < MaxFailures
    /\ failures' = failures + 1

\* Calling a pipeline function: its synchronous prefix runs at once.
Start(r) ==
    /\ pc' = [pc EXCEPT ![r] = firstAwait(Kind(r))]
    /\ driverCalls' = driverCalls \cup firstCall(Kind(r))

\* The startup block: fetchPipeline(); snapshotPipeline();
\* consumptionPipeline(); and the async block up to its first await.
Startup ==
    /\ hpc.startup = "boot"
    /\ hpc' = [hpc EXCEPT !.startup = "battery1"]
    /\ pc' = [r \in RunIds |->
                 IF r \in {"s_fetch", "s_snapshot", "s_consumption", "s_battery1"}
                 THEN firstAwait(Kind(r)) ELSE pc[r]]
    /\ driverCalls' = driverCalls \cup firstCall("snapshot")
    /\ UNCHANGED <<due, res, logged, resets, ledger, ledgerTs, escaped, failures>>
    /\ OrchFrame

\* The rest of the startup block: await batteryPipeline(); then, unless
\* data_collection_only, await executePipeline(); await batteryPipeline().
\* An awaited run that rejected ends the block.
StartupAfterBattery1 ==
    /\ hpc.startup = "battery1"
    /\ awaited("s_battery1")
    /\ IF "s_battery1" \in escaped \/ ~dispatchEnabled
       THEN /\ hpc' = [hpc EXCEPT !.startup = "done"]
            /\ UNCHANGED <<pc, driverCalls>>
       ELSE /\ hpc' = [hpc EXCEPT !.startup = "execute"]
            /\ Start("s_execute")
    /\ UNCHANGED <<due, res, logged, resets, ledger, ledgerTs, escaped, failures>>
    /\ OrchFrame

StartupAfterExecute ==
    /\ hpc.startup = "execute"
    /\ awaited("s_execute")
    /\ hpc' = [hpc EXCEPT !.startup = "battery2"]
    /\ Start("s_battery2")
    /\ UNCHANGED <<due, res, logged, resets, ledger, ledgerTs, escaped, failures>>
    /\ OrchFrame

StartupAfterBattery2 ==
    /\ hpc.startup = "battery2"
    /\ awaited("s_battery2")
    /\ hpc' = [hpc EXCEPT !.startup = "done"]
    /\ UNCHANGED <<due, pc, res, logged, resets, ledger, ledgerTs, escaped, driverCalls, failures>>
    /\ OrchFrame

\* No pipeline run is in progress and no handler is suspended.
Quiescent ==
    /\ due = {}
    /\ hpc.quarter = "idle"
    /\ hpc.startup = "done"
    /\ \A r \in RunIds : ~InProgress(r)

\* The clock reaches the next cron instant: the entries whose pattern matches
\* become due.  The runs of the previous instant have all ended by then (the
\* operations they await are bounded by timeouts well below the five minutes
\* between two instants); their records are dropped.
Tick ==
    /\ ticks < MaxTicks
    /\ Quiescent
    /\ clock' = nextInstant(clock)
    /\ ticks' = ticks + 1
    /\ due' = {e \in CronEntries : cronMatches(e, nextInstant(clock))}
    /\ pc' = [r \in RunIds |-> "idle"]
    /\ res' = [r \in RunIds |-> "none"]
    /\ logged' = [r \in RunIds |-> "none"]
    /\ resets' = [r \in RunIds |-> <<>>]
    /\ escaped' = {}
    /\ driverCalls' = {}
    /\ UNCHANGED <<inverter, hpc, ledger, ledgerTs, failures>>
    /\ UNCHANGED optVars
    /\ UNCHANGED drvVars
    /\ UNCHANGED cmdVars
    /\ UNCHANGED fetchVars
    /\ UNCHANGED learnVars
    /\ UNCHANGED healthVars
    /\ UNCHANGED biasVars
    /\ UNCHANGED metricVars

\* cron.schedule(pattern, () => { pipeline(); }) for an async pipeline: the
\* callback returns once the run is suspended at its first await.
CronStart(entry, r) ==
    /\ due' = due \ {entry}
    /\ Start(r)
    /\ UNCHANGED <<hpc, res, logged, resets, ledger, ledgerTs, escaped, failures>>
    /\ OrchFrame

\* cron.schedule(pattern, () => { pipeline(); }) for a synchronous pipeline
\* (learnPipeline, smoothPipeline): the whole run is one step.
CronRunSync(entry, r) ==
    /\ due' = due \ {entry}
    /\ \E bodyOk \in BOOLEAN, okWrite \in BOOLEAN, errWrite \in BOOLEAN :
          FinishRun(r, bodyOk, okWrite, errWrite)
    /\ UNCHANGED <<hpc, resets, driverCalls>>
    /\ OrchFrame

CronFetch ==
    /\ "fetch" \in due
    /\ CronStart("fetch", "c_fetch")

CronLearn ==
    /\ "learn" \in due
    /\ CronRunSync("learn", "c_learn")

CronSmooth ==
    /\ "smooth" \in due
    /\ CronRunSync("smooth", "c_smooth")

CronDayAhead ==
    /\ "dayahead" \in due
    /\ CronStart("dayahead", "c_dayahead")

CronHourly ==
    /\ "hourly" \in due
    /\ CronStart("hourly", "c_hourly")

CronConsumption ==
    /\ "consumption" \in due
    /\ CronStart("consumption", "c_consumption")

\* cron.schedule('*/15 * * * *', async () => { await snapshotPipeline(); ...
CronQuarter ==
    /\ "quarter" \in due
    /\ due' = due \ {"quarter"}
    /\ hpc' = [hpc EXCEPT !.quarter = "snapshot"]
    /\ Start("q_snapshot")
    /\ UNCHANGED <<res, logged, resets, ledger, ledgerTs, escaped, failures>>
    /\ OrchFrame

\* ... if (!config.inverter.data_collection_only) { await executePipeline();
QuarterAfterSnapshot ==
    /\ hpc.quarter = "snapshot"
    /\ awaited("q_snapshot")
    /\ IF "q_snapshot" \in escaped \/ ~dispatchEnabled
       THEN /\ hpc' = [hpc EXCEPT !.quarter = "idle"]
            /\ UNCHANGED <<pc, driverCalls>>
       ELSE /\ hpc' = [hpc EXCEPT !.quarter = "execute"]
            /\ Start("q_execute")
    /\ UNCHANGED <<due, res, logged, resets, ledger, ledgerTs, escaped, failures>>
    /\ OrchFrame

\* ... await batteryPipeline(); } })
QuarterAfterExecute ==
    /\ hpc.quarter = "execute"
    /\ awaited("q_execute")
    /\ hpc' = [hpc EXCEPT !.quarter = "battery"]
    /\ Start("q_battery")
    /\ UNCHANGED <<due, res, logged, resets, ledger, ledgerTs, escaped, failures>>
    /\ OrchFrame

QuarterAfterBattery ==
    /\ hpc.quarter = "battery"
    /\ awaited("q_battery")
    /\ hpc' = [hpc EXCEPT !.quarter = "idle"]
    /\ UNCHANGED <<due, pc, res, logged, resets, ledger, ledgerTs, escaped, driverCalls, failures>>
    /\ OrchFrame

\* The variables a step of a pipeline run leaves alone.
RunFrame ==
    /\ UNCHANGED <<due, hpc>>
    /\ OrchFrame

\* fetchPipeline resumes after `await fetchWeather()`: parseWeatherData,
\* runModel and the ledger write follow without another await.
FetchWeatherDone(r) ==
    /\ Kind(r) = "fetch"
    /\ pc[r] = "fetchWeather"
    /\ \E bodyOk \in BOOLEAN, okWrite \in BOOLEAN, errWrite \in BOOLEAN :
          FinishRun(r, bodyOk, okWrite, errWrite)
    /\ UNCHANGED <<resets, driverCalls>>
    /\ RunFrame

\* batteryPipeline resumes after `await fetchPrices()`.
FetchPricesDone(r) ==
    /\ Kind(r) = "battery"
    /\ pc[r] = "fetchPrices"
    /\ \E ok \in BOOLEAN, errWrite \in BOOLEAN :
          IF ok
          THEN /\ pc' = [pc EXCEPT ![r] = "estimateConsumption"]
               /\ UNCHANGED <<res, logged, ledger, ledgerTs, escaped, failures>>
          ELSE FinishRun(r, FALSE, TRUE, errWrite)
    /\ UNCHANGED <<resets, driverCalls>>
    /\ RunFrame

\* batteryPipeline resumes after `await estimateConsumption()`: with a driver
\* it calls driver.getState and suspends again; without one it runs the
\* optimizer at once.
EstimateConsumptionDone(r) ==
    /\ Kind(r) = "battery"
    /\ pc[r] = "estimateConsumption"
    /\ \E ok \in BOOLEAN, optOk \in BOOLEAN, okWrite \in BOOLEAN, errWrite \in BOOLEAN :
          IF ~ok
          THEN /\ FinishRun(r, FALSE, TRUE, errWrite)
               /\ UNCHANGED driverCalls
          ELSE IF getDriver # Null
          THEN /\ pc' = [pc EXCEPT ![r] = "getState"]
               /\ driverCalls' = driverCalls \cup {"getState"}
               /\ UNCHANGED <<res, logged, ledger, ledgerTs, escaped, failures>>
          ELSE /\ FinishRun(r, optOk, okWrite, errWrite)
               /\ UNCHANGED driverCalls
    /\ UNCHANGED resets
    /\ RunFrame

\* batteryPipeline resumes after `await driver.getState(...)` (a failed read
\* is caught and only logged), runs the optimizer and writes the ledger.
BatteryGetStateDone(r) ==
    /\ Kind(r) = "battery"
    /\ pc[r] = "getState"
    /\ \E optOk \in BOOLEAN, okWrite \in BOOLEAN, errWrite \in BOOLEAN :
          FinishRun(r, optOk, okWrite, errWrite)
    /\ UNCHANGED <<resets, driverCalls>>
    /\ RunFrame

\* snapshotPipeline resumes after `await driver.getEnergyTotals(cfg)`:
\* upsertEnergySnapshot and the ledger write follow without another await.
GetEnergyTotalsDone(r) ==
    /\ Kind(r) = "snapshot"
    /\ pc[r] = "getEnergyTotals"
    /\ \E bodyOk \in BOOLEAN, okWrite \in BOOLEAN, errWrite \in BOOLEAN :
          FinishRun(r, bodyOk, okWrite, errWrite)
    /\ UNCHANGED <<resets, driverCalls>>
    /\ RunFrame

\* consumptionPipeline resumes after the temperature fetch (whose failure is
\* caught and logged).  stored: both snapshots were found, the delta was
\* stored and the ledger written, and the function returns; missing: a
\* snapshot is missing; error: a statement of that try block, the ledger
\* write included, raised an error, which is caught and only logged.  In
\* the last two cases the run falls through to the instantaneous fallback.
FetchTempDone(r) ==
    /\ Kind(r) = "consumption"
    /\ pc[r] = "fetchTemp"
    /\ \E delta \in {"stored", "missing", "error"} :
          IF delta = "stored"
          THEN /\ FinishRun(r, TRUE, TRUE, TRUE)
               /\ UNCHANGED driverCalls
          ELSE /\ pc' = [pc EXCEPT ![r] = "getMetrics"]
               /\ driverCalls' = driverCalls \cup {"getMetrics"}
               /\ IF delta = "error" THEN Fail ELSE UNCHANGED failures
               /\ UNCHANGED <<res, logged, ledger, ledgerTs, escaped>>
    /\ UNCHANGED resets
    /\ RunFrame

\* consumptionPipeline resumes after `await driver.getMetrics(cfg)`.
GetMetricsDone(r) ==
    /\ Kind(r) = "consumption"
    /\ pc[r] = "getMetrics"
    /\ \E bodyOk \in BOOLEAN, okWrite \in BOOLEAN, errWrite \in BOOLEAN :
          FinishRun(r, bodyOk, okWrite, errWrite)
    /\ UNCHANGED <<resets, driverCalls>>
    /\ RunFrame

\* The catch block of executePipeline: log the error, then
\* `await driver.resetToDefault(cfg)`.  It writes nothing to the ledger.
catchExecute(r) ==
    /\ Fail
    /\ pc' = [pc EXCEPT ![r] = "resetToDefault"]
    /\ res' = [res EXCEPT ![r] = "error"]
    /\ driverCalls' = driverCalls \cup {"resetToDefault"}

\* executePipeline resumes after `await driver.getState(cfg)`.  error: the
\* read or getScheduleForRange failed; skip: no slots, or no future slots
\* (plain return); slots: it calls driver.applySchedule.
ExecGetStateDone(r) ==
    /\ Kind(r) = "execute"
    /\ pc[r] = "getState"
    /\ \E out \in {"error", "skip", "slots"} :
          CASE out = "error" -> catchExecute(r)
            [] out = "skip" ->
                 /\ pc' = [pc EXCEPT ![r] = "done"]
                 /\ UNCHANGED <<res, driverCalls, failures>>
            [] out = "slots" ->
                 /\ pc' = [pc EXCEPT ![r] = "applySchedule"]
                 /\ driverCalls' = driverCalls \cup {"applySchedule"}
                 /\ UNCHANGED <<res, failures>>
    /\ UNCHANGED <<logged, resets, ledger, ledgerTs, escaped>>
    /\ RunFrame

\* executePipeline resumes after `await driver.applySchedule(...)`; the
\* ledger write is the last statement of the try block.
ApplyScheduleDone(r) ==
    /\ Kind(r) = "execute"
    /\ pc[r] = "applySchedule"
    /\ \E applied \in BOOLEAN, okWrite \in BOOLEAN :
          IF applied /\ okWrite
          THEN /\ pc' = [pc EXCEPT ![r] = "done"]
               /\ res' = [res EXCEPT ![r] = "ok"]
               /\ logged' = [logged EXCEPT ![r] = "ok"]
               /\ ledger' = recordPipelineRun(ledger, "execute", "ok")
               /\ ledgerTs' = recordRunTime(ledgerTs, "execute", clock)
               /\ UNCHANGED <<driverCalls, failures>>
          ELSE /\ catchExecute(r)
               /\ UNCHANGED <<logged, ledger, ledgerTs>>
    /\ UNCHANGED <<resets, escaped>>
    /\ RunFrame

\* Where executePipeline goes once resetToDefault has settled: a failure is
\* logged, and the function returns either way.
afterReset_Retry(ok) == IF ok THEN "done" ELSE "resetToDefault"

afterReset(ok) == "done"

ResetToDefaultDone(r) ==
    /\ Kind(r) = "execute"
    /\ pc[r] = "resetToDefault"
    /\ \E ok \in BOOLEAN :
          /\ IF ok THEN UNCHANGED failures ELSE Fail
          /\ resets' = [resets EXCEPT ![r] = Append(@, IF ok THEN "ok" ELSE "failed")]
          /\ pc' = [pc EXCEPT ![r] = afterReset(ok)]
    /\ UNCHANGED <<res, logged, ledger, ledgerTs, escaped, driverCalls>>
    /\ RunFrame

\* The orchestrator variables while the program is not being run.
OrchIdle ==
    /\ inverter = [brand |-> Null, data_collection_only |-> TRUE]
    /\ clock = [hour |-> 0, minute |-> 0]
    /\ ticks = 0
    /\ due = {}
    /\ hpc = [quarter |-> "idle", startup |-> "boot"]
    /\ pc = [r \in RunIds |-> "idle"]
    /\ res = [r \in RunIds |-> "none"]
    /\ logged = [r \in RunIds |-> "none"]
    /\ resets = [r \in RunIds |-> <<>>]
    /\ ledger = [p \in Pipelines |-> "never_run"]
    /\ ledgerTs = [p \in Pipelines |-> Null]
    /\ escaped = {}
    /\ driverCalls = {}
    /\ failures = 0

(***************************************************************************)
(* The Growatt Modbus TCP driver's connection management                   *)
(* (src/inverters/growatt-modbus.js): the module variables client and      *)
(* lastCmd, getConnection, throttle and withReconnect, under driver calls  *)
(* issued by pipeline runs that are in progress together.  Time is in      *)
(* milliseconds and advances in steps of half the command interval.        *)
(***************************************************************************)
CMD_INTERVAL_MS == 1000

TimeStep == CMD_INTERVAL_MS \div 2

\* Date.now() when the first driver call is made: lastCmd is still 0, and
\* the process clock is far beyond one command interval.
StartNow == CMD_INTERVAL_MS

\* The number of clock steps followed, and of connections ever created.
MaxSteps == 4
MaxConns == 2

ConnIds == 1..MaxConns

\* The pipeline runs that call the driver, and the operation each calls.
DrvCallers == {"snapshot", "battery"}

driverOp(c) == IF c = "snapshot" THEN "getEnergyTotals" ELSE "getState"

\* The number of register reads an operation makes, each behind a throttle().
registerReads(op) ==
    CASE op = "getState" -> 2
      [] op = "getMetrics" -> 4
      [] op = "getEnergyTotals" -> 1

Max2(a, b) == IF a >= b THEN a ELSE b

\* destroyClient(): close the client the module variable refers to.
destroyClient(cs) == IF client = Null THEN cs ELSE [cs EXCEPT ![client[1]] = "closed"]

\* client?.isOpen
clientIsOpen == client # Null /\ conns[client[1]] = "open"

\* throttle(): wait = max(0, CMD_INTERVAL_MS - (now - lastCmd)).
wait == Max2(0, CMD_INTERVAL_MS - (now - lastCmd))

\* A caller holding connection id reaches `await throttle()` and then the
\* register read with `left` reads to go: with nothing to wait for, lastCmd
\* is stamped and the read is issued; otherwise the caller sleeps, and
\* lastCmd is stamped only when it wakes.
throttleThenRead(c, id, left) ==
    IF wait > 0
    THEN /\ dcall' = [dcall EXCEPT ![c] = [pc |-> "sleeping", conn |-> id,
                                           left |-> left, wakeAt |-> now + wait,
                                           last |-> "none"]]
         /\ UNCHANGED lastCmd
    ELSE /\ dcall' = [dcall EXCEPT ![c] = [pc |-> "reading", conn |-> id,
                                           left |-> left, wakeAt |-> 0,
                                           last |-> "none"]]
         /\ lastCmd' = now

\* A caller that is not inside a driver call; last is how its latest call
\* ended: "none" before the first, "ok" (resolved) or "error" (rejected).
IdleCall == [pc |-> "idle", conn |-> 0, left |-> 0, wakeAt |-> 0, last |-> "none"]

resolved == [IdleCall EXCEPT !.last = "ok"]

rejected == [IdleCall EXCEPT !.last = "error"]

\* withReconnect's catch: destroyClient() leaves client = null.
clientAfterError_Kept == client

clientAfterError == Null

DrvFrame ==
    /\ UNCHANGED optVars
    /\ UNCHANGED orchVars
    /\ UNCHANGED cmdVars
    /\ UNCHANGED fetchVars
    /\ UNCHANGED learnVars
    /\ UNCHANGED healthVars
    /\ UNCHANGED biasVars
    /\ UNCHANGED metricVars

\* withReconnect(fn) up to the first suspension: getConnection returns the
\* open client, or destroys the current one and starts connecting a new one.
DrvCall(c) ==
    /\ dcall[c].pc = "idle"
    /\ IF clientIsOpen
       THEN /\ throttleThenRead(c, client[1], registerReads(driverOp(c)))
            /\ UNCHANGED <<client, conns>>
       ELSE /\ \E id \in ConnIds :
                 /\ conns[id] = "unused"
                 /\ \A j \in ConnIds : j < id => conns[j] # "unused"
                 /\ conns' = [destroyClient(conns) EXCEPT ![id] = "connecting"]
                 /\ client' = Some(id)
                 /\ dcall' = [dcall EXCEPT ![c] =
                                 [pc |-> "connecting", conn |-> id,
                                  left |-> registerReads(driverOp(c)), wakeAt |-> 0,
                                  last |-> "none"]]
            /\ UNCHANGED lastCmd
    /\ UNCHANGED now
    /\ DrvFrame

\* The race of connectTCP against the connect timeout settles.  On success
\* getConnection configures and returns whatever the module variable client
\* refers to by then (a TypeError if it is null); on failure it destroys that
\* client, and so does withReconnect.
ConnectSettled(c) ==
    /\ dcall[c].pc = "connecting"
    /\ \E ok \in BOOLEAN :
          IF ok /\ client # Null
          THEN /\ conns' = [conns EXCEPT ![dcall[c].conn] =
                               IF @ = "connecting" THEN "open" ELSE @]
               /\ throttleThenRead(c, client[1], dcall[c].left)
               /\ UNCHANGED client
          ELSE /\ conns' = destroyClient(conns)
               /\ client' = clientAfterError
               /\ dcall' = [dcall EXCEPT ![c] = rejected]
               /\ UNCHANGED lastCmd
    /\ UNCHANGED now
    /\ DrvFrame

\* The timer of throttle() fires: lastCmd = Date.now(), and the caller issues
\* its register read.
Wake(c) ==
    /\ dcall[c].pc = "sleeping"
    /\ now >= dcall[c].wakeAt
    /\ lastCmd' = now
    /\ dcall' = [dcall EXCEPT ![c].pc = "reading"]
    /\ UNCHANGED <<now, client, conns>>
    /\ DrvFrame

\* A register read settles: with a response (only on an open connection),
\* and the caller goes on to its next read or returns; or with an error or
\* timeout, and withReconnect destroys the client.
ReadSettled(c) ==
    /\ dcall[c].pc = "reading"
    /\ \E ok \in BOOLEAN :
          IF ok
          THEN /\ conns[dcall[c].conn] = "open"
               /\ IF dcall[c].left > 1
                  THEN throttleThenRead(c, dcall[c].conn, dcall[c].left - 1)
                  ELSE /\ dcall' = [dcall EXCEPT ![c] = resolved]
                       /\ UNCHANGED lastCmd
               /\ UNCHANGED <<client, conns>>
          ELSE /\ conns' = destroyClient(conns)
               /\ client' = clientAfterError
               /\ dcall' = [dcall EXCEPT ![c] = rejected]
               /\ UNCHANGED lastCmd
    /\ UNCHANGED now
    /\ DrvFrame

\* Time passes, never beyond a timer that is due.
Advance ==
    /\ now < StartNow + MaxSteps * TimeStep
    /\ \A c \in DrvCallers : dcall[c].pc = "sleeping" => dcall[c].wakeAt > now
    /\ now' = now + TimeStep
    /\ UNCHANGED <<client, conns, lastCmd, dcall>>
    /\ DrvFrame

\* The driver variables while the driver is not being used.
DrvIdle ==
    /\ now = StartNow
    /\ client = Null
    /\ conns = [id \in ConnIds |-> "unused"]
    /\ lastCmd = 0
    /\ dcall = [c \in DrvCallers |-> IdleCall]

(***************************************************************************)
(* The driver's commands (src/inverters/growatt-modbus.js: applySchedule,  *)
(* charge, discharge, idle, setPeakShavingTarget, resetToDefault) and the  *)
(* part of executePipeline that selects the slots handed to applySchedule. *)
(* Here the commands are called one after another; the record of a command *)
(* holds the register writes it transmitted.  Wall-clock time is in        *)
(* minutes since the start of the modelled day.                            *)
(***************************************************************************)
MaxCalls == 2

LOAD_FIRST_STOP_SOC == 3310
PEAK_SHAVING_POWER == 800

\* Minutes per schedule slot: Math.floor(now.getMinutes() / 15) * 15.
MinutesPerSlot == 15

\* The SOC the BMS register reads (percent; the register is 16 bits wide).
SocReadings == {5, 120}
\* targetKw of setPeakShavingTarget.
PeakTargets == {<<9, 2>>, <<1, 4>>}
\* The local wall clock at which commands are called, and the offsets of
\* the configured time zone from UTC, in minutes.
CmdNows == {0, 7}
UtcOffsets == {-60, 0, 60}
\* config.inverter: the SOC targets (absent: the defaults apply) and dry_run.
DriverConfigs ==
    {[charge_soc |-> c[1], discharge_soc |-> c[2], dry_run |-> d] :
        c \in {<<Some(95), Some(13)>>, <<Null, Null>>, <<Some(100), Some(5)>>},
        d \in BOOLEAN}

\* The minute a slot key "YYYY-MM-DDTHH:MM" stands for.
tsMinutes(ts) == ts * MinutesPerSlot

\* localTs(date): the wall clock of config.location.timezone, to the minute.
\* A Date is the UTC minute; utcOffset is the zone's offset at that moment.
localTs(date, utcOffset) == date + utcOffset

\* new Date().toISOString().slice(0, 16): the UTC wall clock, to the minute.
toISOString16(date) == date

CmdActions == <<"charge_grid", "charge_solar", "discharge", "sell", "idle">>

\* ACTION_TO_SOC_INTENT[action], undefined for an unknown action.
ACTION_TO_SOC_INTENT(action) ==
    CASE action \in {"charge_grid", "charge_solar"} -> Some("charge")
      [] action \in {"discharge", "sell"} -> Some("discharge")
      [] action = "idle" -> Some("idle")
      [] OTHER -> Null

\* x ?? d
orElse(x, d) == IF x = Null THEN d ELSE x[1]

Min2(a, b) == IF a <= b THEN a ELSE b

\* Math.max(13, Math.min(100, targetSoc))
clampSoc_None(targetSoc) == targetSoc

clampSoc(targetSoc) == Max2(13, Min2(100, targetSoc))

\* if (cfg.dry_run) { log; return } -- the write is transmitted otherwise.
transmits_Always == TRUE

transmits == ~drvCfg.dry_run

\* applySchedule: the current slot, the latest slot whose key is <= now,
\* else the first slot.  now is the UTC wall clock; the keys are compared
\* with it as they are.
currentSlot(slots, nowIso) ==
    LET past == SelectSeq(slots, LAMBDA s : tsMinutes(s.slot_ts) <= nowIso)
    IN  IF past # <<>>
        THEN past[CHOOSE i \in DOMAIN past :
                    \A j \in DOMAIN past :
                        \/ past[j].slot_ts < past[i].slot_ts
                        \/ (past[j].slot_ts = past[i].slot_ts /\ j >= i)]
        ELSE slots[1]

\* withReconnect(getConnection; throttle; conn.writeRegister(reg, value)):
\* what goes out on the wire and whether the call resolves.  A failed
\* connect sends nothing; a write that errors or times out was sent.
writeRegister(reg, value, fail) ==
    CASE fail = "connect" -> [sent |-> <<>>, ok |-> FALSE]
      [] fail = "write" -> [sent |-> <<[reg |-> reg, value |-> value]>>, ok |-> FALSE]
      [] OTHER -> [sent |-> <<[reg |-> reg, value |-> value]>>, ok |-> TRUE]

\* Where a command may fail: nowhere, in the SOC read (getState), in the
\* connect, or in the register write.
CmdFailures == {"none", "read", "connect", "write"}

\* The record of a command: what was called with what, and what came of it.
CmdRecord(op, slots, nowIso, soc, fail, status, result, current, target, sent) ==
    [op |-> op, slots |-> slots, nowIso |-> nowIso, soc |-> soc, fail |-> fail,
     status |-> status, ret |-> result, current |-> current, target |-> target,
     sent |-> sent]

\* One command has been called: its record is kept and what it transmitted
\* is counted.
Called(rec) ==
    /\ dlast' = rec
    /\ nsent' = nsent + Len(rec.sent)
    /\ ncalls' = ncalls + 1
    /\ UNCHANGED drvCfg

\* applySchedule(slots, cfg), called when the UTC clock reads nowIso; soc is
\* what getState reads if it is asked.
applySchedule(slots, nowIso, soc, fail) ==
    IF slots = <<>>
    THEN Called(CmdRecord("applySchedule", slots, nowIso, soc, fail, "returned",
                          Some([applied |-> 0, skipped |-> 0]), Null, Null, <<>>))
    ELSE
      LET cur == currentSlot(slots, nowIso)
          intent == orElse(ACTION_TO_SOC_INTENT(cur.action), "idle")
          raw == CASE intent = "charge" -> orElse(drvCfg.charge_soc, 90)
                   [] intent = "discharge" -> orElse(drvCfg.discharge_soc, 20)
                   [] OTHER -> soc
          targetSoc == clampSoc(raw)
          w == writeRegister(LOAD_FIRST_STOP_SOC, targetSoc, fail)
          rec(status, result, sent) ==
              CmdRecord("applySchedule", slots, nowIso, soc, fail, status, result,
                        Some(cur.slot_ts), Some(targetSoc), sent)
      IN  IF intent = "idle" /\ fail = "read"
          THEN Called([rec("threw", Null, <<>>) EXCEPT !.target = Null])
          ELSE IF ~transmits
          THEN Called(rec("returned", Some([applied |-> 1, skipped |-> 0]), <<>>))
          ELSE IF w.ok
          THEN Called(rec("returned", Some([applied |-> 1, skipped |-> 0]), w.sent))
          ELSE Called(rec("threw", Null, w.sent))

\* charge / discharge / idle: read the SOC, then write the target to
\* LoadFirstStopSocSet unless dry_run.
socCommand(op, soc, fail) ==
    LET target == CASE op = "charge" -> orElse(drvCfg.charge_soc, 90)
                    [] op = "discharge" -> orElse(drvCfg.discharge_soc, 20)
                    [] op = "idle" -> soc
        w == writeRegister(LOAD_FIRST_STOP_SOC, target, fail)
        rec(status, result, sent) ==
            CmdRecord(op, <<>>, toISOString16(dclock.date), soc, fail, status,
                      result, Null, Some(target), sent)
        result == Some([soc |-> soc, target |-> target])
    IN  IF fail = "read" THEN Called([rec("threw", Null, <<>>) EXCEPT !.target = Null])
        ELSE IF ~transmits THEN Called(rec("returned", result, <<>>))
        ELSE IF w.ok THEN Called(rec("returned", result, w.sent))
        ELSE Called(rec("threw", Null, w.sent))

\* setPeakShavingTarget(targetKw, cfg): regValue = Math.round(targetKw * 10).
setPeakShavingTarget(targetKw, fail) ==
    LET regValue == MathRound(RMul(targetKw, I2R(10)))
        w == writeRegister(PEAK_SHAVING_POWER, regValue, fail)
        rec(status, result, sent) ==
            CmdRecord("setPeakShavingTarget", <<>>, toISOString16(dclock.date), 0,
                      fail, status, result, Null, Some(regValue), sent)
        result == Some([target_kw |-> targetKw, reg_value |-> regValue])
    IN  IF ~transmits THEN Called(rec("returned", result, <<>>))
        ELSE IF w.ok THEN Called(rec("returned", result, w.sent))
        ELSE Called(rec("threw", Null, w.sent))

\* resetToDefault(cfg): write cfg.discharge_soc ?? 13 unless dry_run.
resetToDefault(fail) ==
    LET defaultSoc == orElse(drvCfg.discharge_soc, 13)
        w == writeRegister(LOAD_FIRST_STOP_SOC, defaultSoc, fail)
        rec(status, sent) ==
            CmdRecord("resetToDefault", <<>>, toISOString16(dclock.date), 0, fail,
                      status, Null, Null, Some(defaultSoc), sent)
    IN  IF ~transmits THEN Called(rec("returned", <<>>))
        ELSE IF w.ok THEN Called(rec("returned", w.sent))
        ELSE Called(rec("threw", w.sent))

\* ORDER BY slot_ts: the rows of a set of slot keys, in ascending order.
RECURSIVE orderBySlotTs(_)
orderBySlotTs(S) ==
    IF S = {} THEN <<>>
    ELSE LET m == CHOOSE x \in S : \A y \in S : x <= y
         IN  <<schedule[m][1]>> \o orderBySlotTs(S \ {m})

\* executePipeline: the slots of now -> +24h, from the local quarter hour
\* that contains now.
executeSlots ==
    LET fromTs == localTs(dclock.date, dclock.utcOffset) \div MinutesPerSlot
        toTs == fromTs + (24 * 60) \div MinutesPerSlot
    IN  orderBySlotTs(getScheduleForRange(fromTs, toTs))

\* executePipeline: futureSlots = slots.filter(s => s.slot_ts >= nowTs), nowTs
\* being the local wall clock to the minute.
futureSlots ==
    SelectSeq(executeSlots,
              LAMBDA s : tsMinutes(s.slot_ts) >= localTs(dclock.date, dclock.utcOffset))

\* What a command leaves alone: the clock stands still while the commands are
\* followed, and the store is only read.
CmdFrame ==
    /\ UNCHANGED <<dclock, schedule>>
    /\ UNCHANGED <<cfg, prices, solar, ret, prevSchedule, runs>>
    /\ UNCHANGED orchVars
    /\ UNCHANGED drvVars
    /\ UNCHANGED fetchVars
    /\ UNCHANGED learnVars
    /\ UNCHANGED healthVars
    /\ UNCHANGED biasVars
    /\ UNCHANGED metricVars

\* executePipeline from the schedule read to the applySchedule call.
ExecuteApply ==
    /\ ncalls < MaxCalls
    /\ \E soc \in SocReadings, fail \in CmdFailures :
          IF futureSlots = <<>>
          THEN Called(CmdRecord("skip", <<>>, toISOString16(dclock.date), soc, fail,
                                "returned", Null, Null, Null, <<>>))
          ELSE applySchedule(futureSlots, toISOString16(dclock.date), soc, fail)
    /\ CmdFrame

Charge ==
    /\ ncalls < MaxCalls
    /\ \E soc \in SocReadings, fail \in CmdFailures : socCommand("charge", soc, fail)
    /\ CmdFrame

Discharge ==
    /\ ncalls < MaxCalls
    /\ \E soc \in SocReadings, fail \in CmdFailures : socCommand("discharge", soc, fail)
    /\ CmdFrame

Idle ==
    /\ ncalls < MaxCalls
    /\ \E soc \in SocReadings, fail \in CmdFailures : socCommand("idle", soc, fail)
    /\ CmdFrame

SetPeakShavingTarget ==
    /\ ncalls < MaxCalls
    /\ \E targetKw \in PeakTargets, fail \in CmdFailures \ {"read"} :
          setPeakShavingTarget(targetKw, fail)
    /\ CmdFrame

ResetToDefault ==
    /\ ncalls < MaxCalls
    /\ \E fail \in CmdFailures \ {"read"} : resetToDefault(fail)
    /\ CmdFrame

NoCall == CmdRecord("none", <<>>, 0, 0, "none", "none", Null, Null, Null, <<>>)

\* The command variables while no command is followed.
CmdIdle ==
    /\ drvCfg = [charge_soc |-> Some(95), discharge_soc |-> Some(13), dry_run |-> TRUE]
    /\ dclock = [date |-> 0, utcOffset |-> 0]
    /\ nsent = 0
    /\ dlast = NoCall
    /\ ncalls = 0

(***************************************************************************)
(* The external fetches (src/fetcher.js: withRetry, fetchWeather;          *)
(* src/prices/*.js: fetchPricesForDate; src/price-fetcher.js: fetchPrices) *)
(* as the fetch pipeline and the battery pipeline make them.  A run is     *)
(* followed from its first request to the return or throw of its fetch.    *)
(***************************************************************************)
MaxFetchRuns == 2

\* withRetry(fn, { attempts = 3, delayMs = 5000 }); both price providers pass
\* the same values.
RetryAttempts == 3

\* The HTTP requests: the Open-Meteo forecast, the prices of today and of
\* tomorrow.
ExternalCalls == {"weather", "prices_today", "prices_tomorrow"}

\* How a request ends: a usable body, no data (404 or an empty list, prices
\* only), an HTTP error status, or a network error / timeout.
FetchOutcomes(call) ==
    IF call = "weather" THEN {"ok", "http_error", "timeout"}
    ELSE {"ok", "no_data", "http_error", "timeout"}

\* One turn of withRetry's loop, attempt i of fn having ended with outcome:
\* return what fn returned, sleep delayMs and try again, or throw lastErr.
withRetry(i, outcome) ==
    IF outcome \in {"ok", "no_data"} THEN "return"
    ELSE IF i < RetryAttempts THEN "delay"
    ELSE "throw"

IdleRun == [pipeline |-> "none", call |-> "none", i |-> 0, pc |-> "idle"]

FetchFrame ==
    /\ UNCHANGED optVars
    /\ UNCHANGED orchVars
    /\ UNCHANGED drvVars
    /\ UNCHANGED cmdVars
    /\ UNCHANGED learnVars
    /\ UNCHANGED healthVars
    /\ UNCHANGED biasVars
    /\ UNCHANGED metricVars

\* fetchPipeline: const data = await fetchWeather().
FetchPipelineStart ==
    /\ frun.pc \in {"idle", "returned", "threw"}
    /\ nfetch < MaxFetchRuns
    /\ frun' = [pipeline |-> "fetch", call |-> "weather", i |-> 1, pc |-> "requesting"]
    /\ flog' = <<>>
    /\ nfetch' = nfetch + 1
    /\ FetchFrame

\* batteryPipeline: await fetchPrices(), which fetches today's prices first.
BatteryPricesStart ==
    /\ frun.pc \in {"idle", "returned", "threw"}
    /\ nfetch < MaxFetchRuns
    /\ frun' = [pipeline |-> "battery", call |-> "prices_today", i |-> 1, pc |-> "requesting"]
    /\ flog' = <<>>
    /\ nfetch' = nfetch + 1
    /\ FetchFrame

\* The request of attempt i settles, and withRetry takes its turn.  After
\* today's prices fetchPrices goes on to tomorrow's.
RequestSettled ==
    /\ frun.pc = "requesting"
    /\ \E outcome \in FetchOutcomes(frun.call) :
          /\ flog' = Append(flog, <<frun.call, outcome>>)
          /\ frun' = CASE withRetry(frun.i, outcome) = "delay" ->
                            [frun EXCEPT !.pc = "delaying"]
                       [] withRetry(frun.i, outcome) = "throw" ->
                            [frun EXCEPT !.pc = "threw"]
                       [] OTHER ->
                            IF frun.call = "prices_today"
                            THEN [frun EXCEPT !.call = "prices_tomorrow", !.i = 1]
                            ELSE [frun EXCEPT !.pc = "returned"]
    /\ UNCHANGED nfetch
    /\ FetchFrame

\* withRetry's delay timer fires: the next attempt is made.
RetryDelayElapsed ==
    /\ frun.pc = "delaying"
    /\ frun' = [frun EXCEPT !.i = @ + 1, !.pc = "requesting"]
    /\ UNCHANGED <<flog, nfetch>>
    /\ FetchFrame

\* The fetch variables while no fetching run is followed.
FetchIdle ==
    /\ frun = IdleRun
    /\ flog = <<>>
    /\ nfetch = 0

(***************************************************************************)
(* The learning loop (src/parser.js, src/model.js, src/learner.js,         *)
(* src/smoother.js, the consumption pipeline of scheduler.js) over the     *)
(* tables solar_readings, correction_matrix and correction_matrix_smooth.  *)
(* Every pipeline function is synchronous from its first table access to   *)
(* its last, so a run is one step.  An hour_ts key "YYYY-MM-DDTHH:00" is   *)
(* the tuple <<year, month, day, hour>>; kW and factors are rationals.     *)
(***************************************************************************)
MaxLearnRuns == 4

WEIGHT_K == 50
KERNEL_HALF_WIDTH == 7

\* config.js: panel and learning sections.
panel == [peak_kw |-> <<33, 5>>]
learning == [min_irradiance_weight |-> 400, empirical_blend_threshold |-> 30,
             recency_bias |-> [window_days |-> 14, min_samples |-> 10,
                              clamp_min |-> <<1, 2>>, clamp_max |-> <<2, 1>>]]

\* The hours followed, in rowid order: the same hour of the same calendar
\* day in two years, and the hour after it.
ReadingSeq == << <<2025, 6, 15, 10>>, <<2026, 6, 15, 10>>, <<2026, 6, 15, 11>> >>
ReadingKeys == {ReadingSeq[i] : i \in DOMAIN ReadingSeq}

\* shortwave_radiation of a forecast hour, in W/m2.
IrrLevels == {0, 200}
\* What the consumption pipeline derives prod_actual from: pv_today_kwh of
\* the snapshots at the previous and at the current hour (a daily counter,
\* back at 0 after midnight), or the instantaneous solar_w of getMetrics.
ActualSources ==
    {[kind |-> "delta", snapPrev |-> I2R(sp[1]), snapNow |-> I2R(sp[2])] :
        sp \in {<<0, 1>>, <<1, 1>>, <<1, 4>>, <<4, 1>>, <<4, 0>>}}
    \cup {[kind |-> "instant", solar_w |-> w] : w \in {0, 1000, 3000}}
\* geometryCorrection(month, hour): a product of cosines of the panel tilt,
\* the season and the hour, in (0, 1]; the model takes it as given.
GeoCorrections == {<<3, 4>>}

parseTs(ts) == [year |-> ts[1], month |-> ts[2], day |-> ts[3], hour |-> ts[4]]

\* dayOfYear(month, day) = cumDays[month] + day.
dayOfYear(month, day) ==
    <<0, 31, 59, 90, 120, 151, 181, 212, 243, 273, 304, 334>>[month] + day

\* The correction_matrix cells followed: <<month, day_of_month, hour_of_day>>
\* of the readings, and one cell no reading falls into.
cellOf(ts) == <<parseTs(ts).month, parseTs(ts).day, parseTs(ts).hour>>
MatrixCells == {cellOf(ts) : ts \in ReadingKeys} \cup {<<6, 15, 12>>}

\* The correction_matrix_smooth cells followed: <<day_of_year, hour_of_day>>
\* on the day of the readings, at the edge of the kernel and beyond it.
SmoothCells ==
    {<<dayOfYear(6, 15) + o, h>> : o \in {0, KERNEL_HALF_WIDTH, KERNEL_HALF_WIDTH + 1},
                                    h \in {10, 11}}

\* The seeding INSERT: (m, d, h, 1.0, 0, NULL, NULL), total_weight DEFAULT 0.
seedCell_Zero ==
    [correction_avg |-> I2R(0), sample_count |-> 0, total_weight |-> I2R(0),
     max_prod |-> Null]

seedCell ==
    [correction_avg |-> I2R(1), sample_count |-> 0, total_weight |-> I2R(0),
     max_prod |-> Null]

\* The three tables as one value.
Tables == [readings |-> readings, matrix |-> matrix, smooth |-> smooth]

\* upsertReading(hourTs, irrForecast): insert the row or set its irr_forecast.
upsertReading(rd, ts, irr) ==
    IF rd[ts] = Null
    THEN [rd EXCEPT ![ts] = Some([irr_forecast |-> Some(irr), prod_forecast |-> Null,
                                  prod_actual |-> Null, correction |-> Null,
                                  confidence |-> Null])]
    ELSE [rd EXCEPT ![ts] = Some([rd[ts][1] EXCEPT !.irr_forecast = Some(irr)])]

\* UPDATE solar_readings SET <column> = ? WHERE hour_ts = ?: no row, no change.
updateColumn(rd, ts, column, value) ==
    IF rd[ts] = Null THEN rd
    ELSE [rd EXCEPT ![ts] = Some([rd[ts][1] EXCEPT ![column] = value])]

\* parseWeatherData(data): upsert every hour of the response that has a
\* radiation value.
RECURSIVE parseWeatherData(_, _, _)
parseWeatherData(rd, data, i) ==
    IF i > Len(ReadingSeq) THEN rd
    ELSE LET ts == ReadingSeq[i]
         IN  parseWeatherData(IF data[ts] = Null THEN rd
                              ELSE upsertReading(rd, ts, data[ts][1]),
                              data, i + 1)

\* Mutant of getReadingsWithoutForecast: every reading with irradiance.
getReadingsWithoutForecast_All(rd) ==
    SelectSeq(ReadingSeq, LAMBDA ts : rd[ts] # Null /\ rd[ts][1].irr_forecast # Null)

\* getReadingsWithoutForecast: irr_forecast IS NOT NULL AND prod_forecast IS NULL.
getReadingsWithoutForecast(rd) ==
    SelectSeq(ReadingSeq, LAMBDA ts : /\ rd[ts] # Null
                                      /\ rd[ts][1].irr_forecast # Null
                                      /\ rd[ts][1].prod_forecast = Null)

\* updateForecast(hourTs, prodForecast, confidence):
\* UPDATE solar_readings SET prod_forecast = ?, confidence = ? WHERE hour_ts = ?.
\* The function has three parameters; a fourth argument of a call is dropped.
updateForecast(rd, hourTs, prodForecast, confidence) ==
    updateColumn(updateColumn(rd, hourTs, "prod_forecast", Some(prodForecast)),
                 hourTs, "confidence", Some(confidence))

\* getLastActualForHour(hourOfDay): the latest row of that hour of day with
\* prod_actual and a positive irr_forecast, or Null.
getLastActualForHour(rd, hourOfDay) ==
    LET rows == SelectSeq(ReadingSeq, LAMBDA ts : /\ rd[ts] # Null
                                                 /\ parseTs(ts).hour = hourOfDay
                                                 /\ rd[ts][1].prod_actual # Null
                                                 /\ rd[ts][1].irr_forecast # Null
                                                 /\ rd[ts][1].irr_forecast[1] > 0)
    IN  IF rows = <<>> THEN Null ELSE Some(rd[rows[Len(rows)]][1])

\* The fallback correction of a cell: the geometry correction, or, when the
\* cell has no sample, the correction implied by the last actual of that hour
\* of day if it lies strictly between 0 and 10.
fallbackCorrection(rd, sampleCount, hour, geoCorrection) ==
    LET lastActual == getLastActualForHour(rd, hour) IN
    IF sampleCount = 0 /\ lastActual # Null
    THEN LET implied == RDiv(lastActual[1].prod_actual[1],
                             RMul(panel.peak_kw, Rat(lastActual[1].irr_forecast[1], 1000)))
         IN  IF RPos(implied) /\ RLt(implied, I2R(10)) THEN implied ELSE geoCorrection
    ELSE geoCorrection

\* The combined cell correction of a reading:
\* empiricalWeight * matrixCorrection + (1 - empiricalWeight) * fallbackCorrection.
appliedCorrection(rd, mx, ts, geoCorrection) ==
    LET cell == mx[cellOf(ts)]
        empiricalWeight ==
            RMin(I2R(1), Rat(cell.sample_count, learning.empirical_blend_threshold))
    IN  RAdd(RMul(empiricalWeight, cell.correction_avg),
             RMul(RSub(I2R(1), empiricalWeight),
                  fallbackCorrection(rd, cell.sample_count, parseTs(ts).hour,
                                     geoCorrection)))

\* runModel, one row:
\* prod_forecast = peak_kw * (irr / 1000) * correction * biasScalar, never
\* below 0; updateForecast(hour_ts, forecast, confidence, correction).
modelRow(rd, mx, ts, geoCorrection, biasScalar) ==
    LET irr == rd[ts][1].irr_forecast[1]
        correction == appliedCorrection(rd, mx, ts, geoCorrection)
        prodForecast == RMul(RMul(RMul(panel.peak_kw, Rat(irr, 1000)), correction),
                             biasScalar)
        confidence == RMin(I2R(1), Rat(irr, learning.min_irradiance_weight))
    IN  updateForecast(rd, ts, RMax(I2R(0), prodForecast), confidence)

RECURSIVE modelRows(_, _, _, _, _, _)
modelRows(rd, mx, rows, i, geoCorrection, biasScalar) ==
    IF i > Len(rows) THEN rd
    ELSE modelRows(modelRow(rd, mx, rows[i], geoCorrection, biasScalar), mx, rows,
                   i + 1, geoCorrection, biasScalar)

\* The start of the bias window, window_days before the runs followed.
biasFromTs == <<2026, 6, 1, 10>>

\* hour_ts >= fromTs, as strings "YYYY-MM-DDTHH:00" compare.
TsGe(a, b) ==
    \/ a = b
    \/ \E k \in 1..4 : a[k] > b[k] /\ \A j \in 1..(k - 1) : a[j] = b[j]

\* getRecentActualsForBias(fromTs): the rows of the window with a positive
\* irradiance forecast, a forecast and an actual.
getRecentActualsForBias(rd, fromTs) ==
    LET keys == SelectSeq(ReadingSeq, LAMBDA ts : /\ rd[ts] # Null
                                                 /\ TsGe(ts, fromTs)
                                                 /\ rd[ts][1].irr_forecast # Null
                                                 /\ rd[ts][1].irr_forecast[1] > 0
                                                 /\ rd[ts][1].prod_forecast # Null
                                                 /\ RPos(rd[ts][1].prod_forecast[1])
                                                 /\ rd[ts][1].prod_actual # Null)
    IN  [i \in 1..Len(keys) |->
            [prod_actual |-> rd[keys[i]][1].prod_actual[1],
             prod_forecast |-> rd[keys[i]][1].prod_forecast[1],
             irr_forecast |-> rd[keys[i]][1].irr_forecast[1]]]

\* The loop: residual = prod_actual / prod_forecast,
\* w = irr_forecast / (irr_forecast + WEIGHT_K); weightedSum += residual * w;
\* totalWeight += w.
RECURSIVE biasSums(_, _)
biasSums(rows, i) ==
    IF i > Len(rows) THEN [weightedSum |-> I2R(0), totalWeight |-> I2R(0)]
    ELSE LET rest == biasSums(rows, i + 1)
             residual == RDiv(rows[i].prod_actual, rows[i].prod_forecast)
             w == Rat(rows[i].irr_forecast, rows[i].irr_forecast + WEIGHT_K)
         IN  [weightedSum |-> RAdd(RMul(residual, w), rest.weightedSum),
              totalWeight |-> RAdd(w, rest.totalWeight)]

\* Math.max(clamp_min, Math.min(clamp_max, raw))
clampBias_None(raw, rb) == raw

clampBias(raw, rb) == RMax(rb.clamp_min, RMin(rb.clamp_max, raw))

\* if (totalWeight < min_samples) return 1.0; else the clamped
\* weightedSum / totalWeight.
computeRecencyBias(rows, rb) ==
    LET sums == biasSums(rows, 1) IN
    IF RLt(sums.totalWeight, I2R(rb.min_samples)) THEN I2R(1)
    ELSE clampBias(RDiv(sums.weightedSum, sums.totalWeight), rb)

\* runModel: nothing to forecast, or the bias once and then every row.
runModel(rd, mx, geoCorrection) ==
    LET rows == getReadingsWithoutForecast(rd) IN
    IF rows = <<>> THEN rd
    ELSE modelRows(rd, mx, rows, 1, geoCorrection,
                   computeRecencyBias(getRecentActualsForBias(rd, biasFromTs),
                                      learning.recency_bias))

\* fetchPipeline after the fetch: parseWeatherData(data); runModel().
fetchPipeline(db, data, geoCorrection) ==
    [db EXCEPT !.readings =
        runModel(parseWeatherData(db.readings, data, 1), db.matrix, geoCorrection)]

\* const deltaPv = snapNow.pv_today_kwh >= snapPrev.pv_today_kwh
\*   ? snapNow.pv_today_kwh - snapPrev.pv_today_kwh : snapNow.pv_today_kwh;
deltaPv_NoReset(snapNow, snapPrev) == RSub(snapNow, snapPrev)

deltaPv(snapNow, snapPrev) ==
    IF RLe(snapPrev, snapNow) THEN RSub(snapNow, snapPrev) ELSE snapNow

\* The prod_actual the pipeline stores, in kW: deltaPv, or
\* metrics.solar_w / 1000.
prodActualOf(src) ==
    IF src.kind = "delta" THEN deltaPv(src.snapNow, src.snapPrev)
    ELSE Rat(src.solar_w, 1000)

\* consumptionPipeline: updateActual(hourTs, prodActual) for the previous
\* hour (from the snapshot delta) or the current one (instantaneous reading).
consumptionPipeline(db, ts, prodActual) ==
    [db EXCEPT !.readings = updateColumn(db.readings, ts, "prod_actual", Some(prodActual))]

\* sampleWeight(irr_wm2) = irr / (irr + WEIGHT_K), 0 without irradiance.
sampleWeight(irr) ==
    IF irr = Null \/ irr[1] <= 0 THEN I2R(0)
    ELSE Rat(irr[1], irr[1] + WEIGHT_K)

\* getUnprocessedActuals: prod_actual IS NOT NULL AND correction IS NULL AND
\* prod_forecast IS NOT NULL AND prod_forecast > 0.
getUnprocessedActuals_All(rd) ==
    SelectSeq(ReadingSeq, LAMBDA ts : /\ rd[ts] # Null
                                      /\ rd[ts][1].prod_actual # Null
                                      /\ rd[ts][1].prod_forecast # Null
                                      /\ RPos(rd[ts][1].prod_forecast[1]))

getUnprocessedActuals(rd) ==
    SelectSeq(ReadingSeq, LAMBDA ts : /\ rd[ts] # Null
                                      /\ rd[ts][1].prod_actual # Null
                                      /\ rd[ts][1].correction = Null
                                      /\ rd[ts][1].prod_forecast # Null
                                      /\ RPos(rd[ts][1].prod_forecast[1]))

\* runLearner, one row: store the correction on the reading and fold it into
\* the cell's irradiance-weighted running average.
learnRow(db, ts) ==
    LET row == db.readings[ts][1]
        correction == RDiv(row.prod_actual[1], row.prod_forecast[1])
        weight == sampleWeight(row.irr_forecast)
        cell == db.matrix[cellOf(ts)]
        oldAvg == cell.correction_avg
        oldTotalWeight == cell.total_weight
        oldCount == cell.sample_count
        newTotalWeight == RAdd(oldTotalWeight, weight)
        newAvg == IF RPos(newTotalWeight)
                  THEN RDiv(RAdd(RMul(oldAvg, oldTotalWeight), RMul(correction, weight)),
                            newTotalWeight)
                  ELSE correction
        newCount == oldCount + 1
        newMaxProd == RMax(IF cell.max_prod = Null THEN I2R(0) ELSE cell.max_prod[1],
                           row.prod_actual[1])
    IN  [db EXCEPT !.readings = updateColumn(db.readings, ts, "correction", Some(correction)),
                   !.matrix = [db.matrix EXCEPT ![cellOf(ts)] =
                                  [correction_avg |-> newAvg, sample_count |-> newCount,
                                   total_weight |-> newTotalWeight,
                                   max_prod |-> Some(newMaxProd)]]]

RECURSIVE learnRows(_, _, _)
learnRows(db, rows, i) ==
    IF i > Len(rows) THEN db ELSE learnRows(learnRow(db, rows[i]), rows, i + 1)

runLearner(db) == learnRows(db, getUnprocessedActuals(db.readings), 1)

\* The statements of the loop body that write, each its own implicit
\* transaction: a storage error in one of them ends the run there.
LearnFailures == {"updateCorrection", "updateCorrectionMatrix"}

\* runLearner with a storage error at row k of the rows it selected: the
\* rows before k are processed; of row k the correction is stored when the
\* error comes in the matrix update, and nothing when it comes before.
runLearnerInterrupted(db, k, where) ==
    LET rows == getUnprocessedActuals(db.readings)
        before == learnRows(db, SubSeq(rows, 1, k - 1), 1)
    IN  IF where = "updateCorrection" THEN before
        ELSE [before EXCEPT !.readings = learnRow(before, rows[k]).readings]

\* getReadingsForSmoothing: correction IS NOT NULL AND confidence IS NOT NULL.
getReadingsForSmoothing(rd) ==
    SelectSeq(ReadingSeq, LAMBDA ts : /\ rd[ts] # Null
                                      /\ rd[ts][1].correction # Null
                                      /\ rd[ts][1].confidence # Null)

\* dayDistance(a, b), with the wrap at the end of the year.
dayDistance(a, b) == IF Abs(a - b) <= 365 - Abs(a - b) THEN Abs(a - b) ELSE 365 - Abs(a - b)

\* The weight of an entry short of the Gaussian factor: confidence times
\* min(1, prodActual / 2), or times 0.1 without production.
entryWeight(row) ==
    RMul(row.confidence[1],
         IF row.prod_actual # Null /\ RPos(row.prod_actual[1])
         THEN RMin(I2R(1), RDiv(row.prod_actual[1], I2R(2)))
         ELSE <<1, 10>>)

RECURSIVE weightedSums(_, _, _)
weightedSums(rd, entries, i) ==
    IF i > Len(entries) THEN [weightedSum |-> I2R(0), totalWeight |-> I2R(0)]
    ELSE LET row == rd[entries[i]][1]
             rest == weightedSums(rd, entries, i + 1)
         IN  [weightedSum |-> RAdd(RMul(row.correction[1], entryWeight(row)),
                                   rest.weightedSum),
              totalWeight |-> RAdd(entryWeight(row), rest.totalWeight)]

\* runSmoother, one target cell: the weighted average of the entries of the
\* same hour within KERNEL_HALF_WIDTH days.  The readings followed share one
\* day of the year, so the entries that reach a target have one Gaussian
\* weight, which cancels in weightedSum / totalWeight.
smoothCell(rd, old, target) ==
    LET entries == SelectSeq(getReadingsForSmoothing(rd), LAMBDA ts :
                       /\ parseTs(ts).hour = target[2]
                       /\ dayDistance(target[1],
                              dayOfYear(parseTs(ts).month, parseTs(ts).day))
                            <= KERNEL_HALF_WIDTH)
        sums == weightedSums(rd, entries, 1)
    IN  IF RPos(sums.totalWeight)
        THEN Some([correction_avg |-> RDiv(sums.weightedSum, sums.totalWeight),
                   sample_count |-> Len(entries)])
        ELSE old

runSmoother_ResetMatrix(db) == [db EXCEPT !.matrix = [c \in MatrixCells |-> seedCell]]

runSmoother(db) ==
    IF getReadingsForSmoothing(db.readings) = <<>> THEN db
    ELSE [db EXCEPT !.smooth =
             [target \in SmoothCells |-> smoothCell(db.readings, db.smooth[target], target)]]

\* A pipeline run has ended with the tables as given.  A learner run that
\* follows a learner run directly is told apart from a first one.
Ran(pipeline, db) ==
    /\ readings' = db.readings
    /\ matrix' = db.matrix
    /\ smooth' = db.smooth
    /\ lop' = IF pipeline = "learn" /\ lop \in {"learn", "learn_again"}
              THEN "learn_again" ELSE pipeline
    /\ nlearn' = nlearn + 1
    /\ UNCHANGED optVars
    /\ UNCHANGED orchVars
    /\ UNCHANGED drvVars
    /\ UNCHANGED cmdVars
    /\ UNCHANGED fetchVars
    /\ UNCHANGED healthVars
    /\ UNCHANGED biasVars
    /\ UNCHANGED metricVars

FetchRun ==
    /\ nlearn < MaxLearnRuns
    /\ \E data \in [ReadingKeys -> Opt(IrrLevels)], geoCorrection \in GeoCorrections :
          /\ \E ts \in ReadingKeys : data[ts] # Null
          /\ Ran("fetch", fetchPipeline(Tables, data, geoCorrection))

ConsumptionRun ==
    /\ nlearn < MaxLearnRuns
    /\ \E ts \in ReadingKeys, src \in ActualSources :
          Ran("consumption", consumptionPipeline(Tables, ts, prodActualOf(src)))

LearnRun ==
    /\ nlearn < MaxLearnRuns
    /\ Ran("learn", runLearner(Tables))

SmoothRun ==
    /\ nlearn < MaxLearnRuns
    /\ Ran("smooth", runSmoother(Tables))

\* A learner run that a storage error cuts short.
LearnRunInterrupted ==
    /\ nlearn < MaxLearnRuns
    /\ \E k \in 1 .. Len(getUnprocessedActuals(readings)), where \in LearnFailures :
          Ran("learn_failed", runLearnerInterrupted(Tables, k, where))

\* snapshotPipeline, batteryPipeline and executePipeline touch none of the
\* three tables.
SnapshotRun ==
    /\ nlearn < MaxLearnRuns
    /\ Ran("snapshot", Tables)

BatteryRun ==
    /\ nlearn < MaxLearnRuns
    /\ Ran("battery", Tables)

ExecuteRun ==
    /\ nlearn < MaxLearnRuns
    /\ Ran("execute", Tables)

\* The tables as db.js leaves them on a new database: no reading, every
\* matrix cell seeded, no smoothed cell.
LearnIdle ==
    /\ readings = [ts \in ReadingKeys |-> Null]
    /\ matrix = [c \in MatrixCells |-> seedCell]
    /\ smooth = [c \in SmoothCells |-> Null]
    /\ lop = "none"
    /\ nlearn = 0

(***************************************************************************)
(* The health endpoint (src/api.js: app.get('/health')).  The handler is   *)
(* synchronous: it reads the ledger rows and Date.now() and answers.  Times *)
(* are in seconds (the precision of a ledger timestamp).                   *)
(***************************************************************************)
\* Expected maximum interval (minutes) between successful runs per pipeline.
PIPELINE_INTERVALS(name) ==
    CASE name = "fetch" -> 6 * 60
      [] name = "learn" -> 60
      [] name = "smooth" -> 24 * 60
      [] name = "battery" -> 60
      [] name = "consumption" -> 60
      [] name = "snapshot" -> 15
      [] name = "execute" -> 15

\* const ageMs = now - new Date(row.last_run_ts + 'Z').getTime();
\* const ageMin = Math.round(ageMs / 60000);
ageMin(row, nowS) == MathRound(Rat((nowS - row.last_run_ts) * 1000, 60000))

\* const overdue = ageMin > maxMinutes * 1.5;
overdue(age, maxMinutes) == 2 * age > 3 * maxMinutes

\* The entry of one pipeline in the response, and whether it is ok.
pipelineHealth(rows, name, nowS) ==
    LET row == rows[name] IN
    IF row = Null
    THEN [status |-> "never_run", overdue |-> TRUE, ok |-> FALSE]
    ELSE LET late == overdue(ageMin(row[1], nowS), PIPELINE_INTERVALS(name)) IN
         [status |-> row[1].last_status, overdue |-> late,
          ok |-> row[1].last_status = "ok" /\ ~late]

\* res.status(allOk ? 200 : 503).json({ ok: allOk, pipelines })
health(rows, nowS) ==
    LET pipelines == [name \in Pipelines |-> pipelineHealth(rows, name, nowS)]
        allOk == \A name \in Pipelines : pipelines[name].ok
    IN  [code |-> IF allOk THEN 200 ELSE 503, ok |-> allOk, pipelines |-> pipelines]

\* The pipeline functions the scheduler calls: executePipeline is called only
\* inside `if (!config.inverter.data_collection_only)`, at startup and in the
\* quarter-hour handler.
ScheduledPipelines ==
    IF dispatchEnabled THEN Pipelines ELSE Pipelines \ {"execute"}

\* The orchestrator's clock in seconds of the day.  The executions followed
\* are shorter than a day, so a row's age is the clock difference modulo 24 h.
secondOfDay(t) == (t.hour * 60 + t.minute) * 60
rowAge(t) == (secondOfDay(clock) - secondOfDay(t)) % 86400

\* getAllPipelineRuns(): the ledger rows the orchestrator has written.
getAllPipelineRuns ==
    [name \in Pipelines |->
        IF ledgerTs[name] = Null THEN Null
        ELSE Some([last_run_ts |-> secondOfDay(clock) - rowAge(ledgerTs[name][1]),
                   last_status |-> ledger[name]])]

\* How long after a cron instant a request arrives (seconds).
RequestDelays == {0, 299}

\* The moment of the request, and the ages (seconds) of a pipeline's row:
\* new, at 1.5 times the interval, and 29 s and 31 s past it.
HealthNows == {200000}
RowAges(name) ==
    LET grace == PIPELINE_INTERVALS(name) * 90 IN {0, grace, grace + 29, grace + 31}
RowsOf(name, nowS) ==
    {Null} \cup {Some([last_run_ts |-> nowS - a, last_status |-> st]) :
                    a \in RowAges(name), st \in {"ok", "error"}}

\* Ledgers in which all rows but two are new and ok.
Ledgers(nowS) ==
    UNION {UNION {{[name \in Pipelines |->
                      IF name = p THEN x ELSE IF name = q THEN y
                      ELSE Some([last_run_ts |-> nowS, last_status |-> "ok"])] :
                    x \in RowsOf(p, nowS), y \in RowsOf(q, nowS)} :
                  q \in Pipelines \ {p}} : p \in Pipelines}

\* app.get('/health', (req, res) => ...)
GetHealth ==
    /\ hres' = Some(health(hrows, hnow))
    /\ UNCHANGED <<hrows, hnow>>
    /\ UNCHANGED optVars
    /\ UNCHANGED orchVars
    /\ UNCHANGED drvVars
    /\ UNCHANGED cmdVars
    /\ UNCHANGED fetchVars
    /\ UNCHANGED learnVars
    /\ UNCHANGED biasVars
    /\ UNCHANGED metricVars

\* The health variables while no request is followed.
HealthIdle ==
    /\ hrows = [name \in Pipelines |-> Null]
    /\ hnow = 0
    /\ hres = Null

(***************************************************************************)
(* The recency bias (src/model.js: computeRecencyBias) as a function of    *)
(* the rows of the window and of config.learning.recency_bias.  A row is   *)
(* [prod_actual, prod_forecast (kW, rationals), irr_forecast (W/m2)].      *)
(***************************************************************************)
MaxBiasRows == 3

\* The rows of a window: a forecast of 1 kW, an actual of 0, 1/4, 1 or 3
\* times the forecast, at low and at high irradiance.
BiasRows ==
    {[prod_actual |-> a, prod_forecast |-> I2R(1), irr_forecast |-> irr] :
        a \in {I2R(0), <<1, 4>>, I2R(1), I2R(3)}, irr \in {50, 450}}
BiasWindows == UNION {[1..n -> BiasRows] : n \in 0..MaxBiasRows}

\* config.learning.recency_bias: the defaults, and a threshold a short
\* window can meet.
BiasConfigs ==
    {learning.recency_bias, [learning.recency_bias EXCEPT !.min_samples = 1]}

\* const biasScalar = computeRecencyBias();
ComputeBias ==
    /\ bias' = Some(computeRecencyBias(brows, bcfg))
    /\ UNCHANGED <<brows, bcfg>>
    /\ UNCHANGED optVars
    /\ UNCHANGED orchVars
    /\ UNCHANGED drvVars
    /\ UNCHANGED cmdVars
    /\ UNCHANGED fetchVars
    /\ UNCHANGED learnVars
    /\ UNCHANGED healthVars
    /\ UNCHANGED metricVars

\* The bias variables while no forecast run is followed.
BiasIdle ==
    /\ brows = <<>>
    /\ bcfg = learning.recency_bias
    /\ bias = Null

(***************************************************************************)
(* Telemetry (src/inverters/growatt-modbus.js: getMetrics).  The powers    *)
(* are read as pairs of 16-bit registers in units of 0.1 W; what is        *)
(* derived from them is followed here, in W as exact rationals.            *)
(***************************************************************************)
\* u32(buf, offset) = ((buf[offset] << 16) | buf[offset + 1]) >>> 0: the
\* unsigned value of the pair, hi and lo being 16-bit register values.
u32(pair) == pair[1] * 65536 + pair[2]

\* The register pairs followed: 0 W, 800 W, 3000 W, 6553.6 W and 10 kW.
RegPairs == {<<0, 0>>, <<0, 8000>>, <<0, 30000>>, <<1, 0>>, <<1, 34464>>}

\* const battery_w = Math.max(0, consumption_w) - solar_w - grid_import_w;
battery_w(solar_w, consumption_w, grid_import_w) ==
    RSub(RSub(RMax(I2R(0), consumption_w), solar_w), grid_import_w)

\* Mutant of grid_export_w: the surplus of solar over consumption.
grid_export_w_Surplus(solar_w, consumption_w, batt_w) ==
    RMax(I2R(0), RSub(solar_w, consumption_w))

\* Math.max(0, solar_w - consumption_w - Math.max(0, -battery_w))
grid_export_w(solar_w, consumption_w, batt_w) ==
    RMax(I2R(0), RSub(RSub(solar_w, consumption_w),
                      RMax(I2R(0), RSub(I2R(0), batt_w))))

\* getMetrics(cfg), the powers it returns.
getMetrics(regs) ==
    LET solar_w == Rat(u32(regs.solar), 10)
        consumption_w == Rat(u32(regs.load), 10)
        grid_import_w == Rat(u32(regs.grid_import), 10)
        batt_w == battery_w(solar_w, consumption_w, grid_import_w)
    IN  [battery_w |-> batt_w, grid_import_w |-> grid_import_w,
         grid_export_w |-> grid_export_w(solar_w, consumption_w, batt_w),
         solar_w |-> solar_w, consumption_w |-> consumption_w]

\* One getMetrics call that resolves.
GetMetrics ==
    /\ metrics = Null
    /\ metrics' = Some(getMetrics(mregs))
    /\ UNCHANGED mregs
    /\ UNCHANGED optVars
    /\ UNCHANGED orchVars
    /\ UNCHANGED drvVars
    /\ UNCHANGED cmdVars
    /\ UNCHANGED fetchVars
    /\ UNCHANGED learnVars
    /\ UNCHANGED healthVars
    /\ UNCHANGED biasVars

\* The telemetry variables while no getMetrics call is followed.
MetricsIdle ==
    /\ mregs = [solar |-> <<0, 0>>, load |-> <<0, 0>>, grid_import |-> <<0, 0>>]
    /\ metrics = Null

(***************************************************************************)
(* Specification of the optimizer as a function of its inputs: the store   *)
(* holds any prices and forecasts, and the optimizer is run once, over any *)
(* window, with any estimates and any starting SOC.                        *)
(***************************************************************************)
NoRun == [status |-> "none", schedule |-> <<>>, summary |-> Null,
          call |-> [fromTs |-> 0, toTs |-> 0, startSoc |-> Null,
                    consumptionEstimates |-> [h \in Hours |-> Null]]]

OptInit ==
    /\ cfg \in Configs
    /\ prices \in {[ts \in Ts |-> IF ts \in PriceTs THEN f[ts] ELSE Null] :
                       f \in [PriceTs -> Opt(PriceLevels)]}
    /\ solar \in [Hours -> Opt(SolarLevels)]
    /\ schedule = [ts \in Ts |-> Null]
    /\ ret = NoRun
    /\ prevSchedule = [ts \in Ts |-> Null]
    /\ runs = 0
    /\ OrchIdle
    /\ DrvIdle
    /\ CmdIdle
    /\ FetchIdle
    /\ LearnIdle
    /\ HealthIdle
    /\ BiasIdle
    /\ MetricsIdle

OptRun ==
    /\ runs = 0
    /\ \E w \in Windows, startSoc \in Opt(StartSocLevels) :
       \E consumptionEstimates \in [Hours -> Opt(ConsumptionLevels)] :
          runOptimizer(w[1], w[2], consumptionEstimates, startSoc, "none")
    /\ UNCHANGED orchVars
    /\ UNCHANGED drvVars
    /\ UNCHANGED cmdVars
    /\ UNCHANGED fetchVars
    /\ UNCHANGED learnVars
    /\ UNCHANGED healthVars
    /\ UNCHANGED biasVars
    /\ UNCHANGED metricVars

OptNext == OptRun

SpecOpt == OptInit /\ [][OptNext]_vars

(***************************************************************************)
(* Specification of the schedule store under repeated optimizer runs: the  *)
(* replanning pipeline runs the optimizer again and again over the stored  *)
(* prices, and any storage operation of a run may fail.                    *)
(***************************************************************************)
StoreWindows == {<<0, NumHours * SlotsPerHour>>, <<1, NumHours * SlotsPerHour>>}

StoreInit ==
    /\ cfg = ConfigSmall
    /\ prices \in {[ts \in Ts |-> IF ts \in PriceTs THEN f[ts] ELSE Null] :
                       f \in [PriceTs -> Opt({10, 100})]}
    /\ solar = [h \in Hours |-> IF h = 0 THEN Null ELSE Some(3)]
    /\ schedule = [ts \in Ts |-> Null]
    /\ ret = NoRun
    /\ prevSchedule = [ts \in Ts |-> Null]
    /\ runs = 0
    /\ OrchIdle
    /\ DrvIdle
    /\ CmdIdle
    /\ FetchIdle
    /\ LearnIdle
    /\ HealthIdle
    /\ BiasIdle
    /\ MetricsIdle

StoreRun ==
    /\ runs < MaxRuns
    /\ \E w \in StoreWindows, startSoc \in {Null, Some(100)}, fail \in StorageFailures :
          runOptimizer(w[1], w[2], [h \in Hours |-> Null], startSoc, fail)
    /\ UNCHANGED orchVars
    /\ UNCHANGED drvVars
    /\ UNCHANGED cmdVars
    /\ UNCHANGED fetchVars
    /\ UNCHANGED learnVars
    /\ UNCHANGED healthVars
    /\ UNCHANGED biasVars
    /\ UNCHANGED metricVars

StoreNext == StoreRun

SpecStore == StoreInit /\ [][StoreNext]_vars

(***************************************************************************)
(* Specification of the orchestrator: the process starts at any time of    *)
(* day, with or without a driver and with or without data_collection_only, *)
(* and runs through the next cron instants; every awaited operation and    *)
(* every storage write may fail.  The store's contents are not followed    *)
(* here: what a pipeline finds in it is an input of its step.              *)
(***************************************************************************)
\* The store and the optimizer while they are not followed.
OptIdle ==
    /\ cfg = ConfigShipped
    /\ prices = [ts \in Ts |-> Null]
    /\ solar = [h \in Hours |-> Null]
    /\ schedule = [ts \in Ts |-> Null]
    /\ ret = NoRun
    /\ prevSchedule = [ts \in Ts |-> Null]
    /\ runs = 0

InverterConfigs ==
    {[brand |-> Some("growatt-modbus"), data_collection_only |-> FALSE],
     [brand |-> Some("growatt-modbus"), data_collection_only |-> TRUE],
     [brand |-> Null, data_collection_only |-> FALSE]}

OrchInit ==
    /\ inverter \in InverterConfigs
    /\ clock \in StartClocks
    /\ ticks = 0
    /\ due = {}
    /\ hpc = [quarter |-> "idle", startup |-> "boot"]
    /\ pc = [r \in RunIds |-> "idle"]
    /\ res = [r \in RunIds |-> "none"]
    /\ logged = [r \in RunIds |-> "none"]
    /\ resets = [r \in RunIds |-> <<>>]
    /\ ledger = [p \in Pipelines |-> "never_run"]
    /\ ledgerTs = [p \in Pipelines |-> Null]
    /\ escaped = {}
    /\ driverCalls = {}
    /\ failures = 0
    /\ OptIdle
    /\ DrvIdle
    /\ CmdIdle
    /\ FetchIdle
    /\ LearnIdle
    /\ HealthIdle
    /\ BiasIdle
    /\ MetricsIdle

OrchNext ==
    \/ Startup
    \/ StartupAfterBattery1
    \/ StartupAfterExecute
    \/ StartupAfterBattery2
    \/ Tick
    \/ CronFetch
    \/ CronLearn
    \/ CronSmooth
    \/ CronDayAhead
    \/ CronHourly
    \/ CronConsumption
    \/ CronQuarter
    \/ QuarterAfterSnapshot
    \/ QuarterAfterExecute
    \/ QuarterAfterBattery
    \/ \E r \in RunIds : FetchWeatherDone(r)
    \/ \E r \in RunIds : FetchPricesDone(r)
    \/ \E r \in RunIds : EstimateConsumptionDone(r)
    \/ \E r \in RunIds : BatteryGetStateDone(r)
    \/ \E r \in RunIds : GetEnergyTotalsDone(r)
    \/ \E r \in RunIds : FetchTempDone(r)
    \/ \E r \in RunIds : GetMetricsDone(r)
    \/ \E r \in RunIds : ExecGetStateDone(r)
    \/ \E r \in RunIds : ApplyScheduleDone(r)
    \/ \E r \in RunIds : ResetToDefaultDone(r)

SpecOrch == OrchInit /\ [][OrchNext]_vars

(***************************************************************************)
(* Specification of the driver's connection management: two pipeline runs  *)
(* call the driver whenever they like, connections and register reads      *)
(* settle after any delay, with a response or with an error.               *)
(***************************************************************************)
DrvInit ==
    /\ DrvIdle
    /\ OrchIdle
    /\ OptIdle
    /\ CmdIdle
    /\ FetchIdle
    /\ LearnIdle
    /\ HealthIdle
    /\ BiasIdle
    /\ MetricsIdle

DrvNext ==
    \/ \E c \in DrvCallers : DrvCall(c)
    \/ \E c \in DrvCallers : ConnectSettled(c)
    \/ \E c \in DrvCallers : Wake(c)
    \/ \E c \in DrvCallers : ReadSettled(c)
    \/ Advance

SpecDrv == DrvInit /\ [][DrvNext]_vars

(***************************************************************************)
(* Specification of the driver's commands: the process runs at some minute *)
(* of the day in some time zone, with any of the inverter configurations   *)
(* and any stored schedule; the execute pipeline and the single commands   *)
(* are called one after another, and the SOC read, the connect and the     *)
(* register write of a command may each fail.                              *)
(***************************************************************************)
\* A battery_schedule row with the columns the commands read.
cmdRow(ts, action) ==
    [slot_ts |-> ts, action |-> action, watts |-> 0, soc_start |-> 0, soc_end |-> 0,
     price_kwh |-> 0, solar_watts |-> 0, consumption_watts |-> 0]

CmdSchedules ==
    {[ts \in Ts |-> Null], [ts \in Ts |-> IF ts = 0 THEN Some(cmdRow(0, "discharge")) ELSE Null],
     [ts \in Ts |-> IF ts >= 2 THEN Some(cmdRow(ts, CmdActions[(ts % 5) + 1])) ELSE Null]}
    \cup {[ts \in Ts |-> Some(cmdRow(ts, CmdActions[((ts + k) % 5) + 1]))] : k \in {1, 3}}

CmdInit ==
    /\ drvCfg \in DriverConfigs
    /\ dclock \in {[date |-> n - o, utcOffset |-> o] : n \in CmdNows, o \in UtcOffsets}
    /\ schedule \in CmdSchedules
    /\ nsent = 0
    /\ dlast = NoCall
    /\ ncalls = 0
    /\ cfg = ConfigShipped
    /\ prices = [ts \in Ts |-> Null]
    /\ solar = [h \in Hours |-> Null]
    /\ ret = NoRun
    /\ prevSchedule = [ts \in Ts |-> Null]
    /\ runs = 0
    /\ OrchIdle
    /\ DrvIdle
    /\ FetchIdle
    /\ LearnIdle
    /\ HealthIdle
    /\ BiasIdle
    /\ MetricsIdle

CmdNext ==
    \/ ExecuteApply
    \/ Charge
    \/ Discharge
    \/ Idle
    \/ SetPeakShavingTarget
    \/ ResetToDefault

SpecCmd == CmdInit /\ [][CmdNext]_vars

(***************************************************************************)
(* Specification of the external fetches: fetch and battery pipeline runs  *)
(* follow one another, and every request may end in any way.               *)
(***************************************************************************)
FetchInit ==
    /\ FetchIdle
    /\ LearnIdle
    /\ HealthIdle
    /\ BiasIdle
    /\ MetricsIdle
    /\ OptIdle
    /\ OrchIdle
    /\ DrvIdle
    /\ CmdIdle

FetchNext ==
    \/ FetchPipelineStart
    \/ BatteryPricesStart
    \/ RequestSettled
    \/ RetryDelayElapsed

SpecFetch == FetchInit /\ [][FetchNext]_vars

(***************************************************************************)
(* Specification of the learning loop: on a new database the pipelines run *)
(* one after another in any order, with any weather and any actuals.       *)
(***************************************************************************)
LearnInit ==
    /\ LearnIdle
    /\ HealthIdle
    /\ BiasIdle
    /\ MetricsIdle
    /\ OptIdle
    /\ OrchIdle
    /\ DrvIdle
    /\ CmdIdle
    /\ FetchIdle

LearnNext ==
    \/ FetchRun
    \/ ConsumptionRun
    \/ LearnRun
    \/ SmoothRun
    \/ SnapshotRun
    \/ BatteryRun
    \/ ExecuteRun

SpecLearn == LearnInit /\ [][LearnNext]_vars

(***************************************************************************)
(* Specification of the learning loop under storage errors: the fetch,     *)
(* consumption and learner pipelines run in any order, and a learner run   *)
(* may be cut short by a storage error at any of its writes.               *)
(***************************************************************************)
LearnErrNext ==
    \/ FetchRun
    \/ ConsumptionRun
    \/ LearnRun
    \/ LearnRunInterrupted

SpecLearnErr == LearnInit /\ [][LearnErrNext]_vars

(***************************************************************************)
(* Specification of the health endpoint as a function of the ledger: the   *)
(* ledger holds any rows, and the endpoint is requested.                   *)
(***************************************************************************)
HealthInit ==
    /\ hnow \in HealthNows
    /\ hrows \in Ledgers(hnow)
    /\ hres = Null
    /\ OptIdle
    /\ OrchIdle
    /\ DrvIdle
    /\ CmdIdle
    /\ FetchIdle
    /\ LearnIdle
    /\ BiasIdle
    /\ MetricsIdle

HealthNext == GetHealth

SpecHealth == HealthInit /\ [][HealthNext]_vars

(***************************************************************************)
(* Specification of the recency bias as a function of its inputs: the      *)
(* window holds any rows, and the bias is computed.                        *)
(***************************************************************************)
BiasInit ==
    /\ brows \in BiasWindows
    /\ bcfg \in BiasConfigs
    /\ bias = Null
    /\ OptIdle
    /\ OrchIdle
    /\ DrvIdle
    /\ CmdIdle
    /\ FetchIdle
    /\ LearnIdle
    /\ HealthIdle
    /\ MetricsIdle

BiasNext == ComputeBias

SpecBias == BiasInit /\ [][BiasNext]_vars

(***************************************************************************)
(* Specification of the telemetry as a function of the registers: the      *)
(* inverter reports any of the followed powers, and getMetrics is called.  *)
(***************************************************************************)
MetricsInit ==
    /\ mregs \in [solar : RegPairs, load : RegPairs, grid_import : RegPairs]
    /\ metrics = Null
    /\ OptIdle
    /\ OrchIdle
    /\ DrvIdle
    /\ CmdIdle
    /\ FetchIdle
    /\ LearnIdle
    /\ HealthIdle
    /\ BiasIdle

MetricsNext == GetMetrics

SpecMetrics == MetricsInit /\ [][MetricsNext]_vars

(***************************************************************************)
(* Properties of the optimizer's schedule.                                 *)
(***************************************************************************)
Returned == ret.status = "returned"
Rows == ret.schedule

\* C1: every slot of every schedule the optimizer produces has soc_start and
\* soc_end within [min_soc, max_soc], whatever the prices, forecast, estimates
\* and starting SOC (SOC values are in tenths of a percent).
C1_SocWithinLimits ==
    Returned =>
        \A i \in DOMAIN Rows :
            /\ cfg.min_soc * 10 <= Rows[i].soc_start
            /\ Rows[i].soc_start <= cfg.max_soc * 10
            /\ cfg.min_soc * 10 <= Rows[i].soc_end
            /\ Rows[i].soc_end <= cfg.max_soc * 10

\* C1 witness: a run seeded with a live SOC above max_soc produced a schedule
\* whose SOC moves (the first slot starts clamped at max_soc and discharges).
C1_Witness ==
    /\ Returned
    /\ ret.call.startSoc # Null
    /\ ret.call.startSoc[1] > cfg.max_soc
    /\ Len(Rows) >= 2
    /\ Rows[1].soc_start = cfg.max_soc * 10
    /\ Rows[1].soc_end < Rows[1].soc_start

\* C2: in one run's schedule, each slot starts at the SOC the previous slot
\* ended with, within 0.1 percentage points.
C2_SocContinuity ==
    Returned =>
        \A i \in DOMAIN Rows :
            i + 1 \in DOMAIN Rows =>
                /\ Rows[i + 1].soc_start - Rows[i].soc_end <= 1
                /\ Rows[i].soc_end - Rows[i + 1].soc_start <= 1

\* C2 witness: a schedule of three slots in which the SOC changes in the first
\* slot and again in the second.
C2_Witness ==
    /\ Returned
    /\ Len(Rows) = 3
    /\ Rows[1].soc_end # Rows[1].soc_start
    /\ Rows[2].soc_end # Rows[2].soc_start

\* The schedule table a complete, successful run of the last call leaves.
NewScheduleTable ==
    upsertScheduleBatch(
        deleteScheduleForRange(prevSchedule, ret.call.fromTs, ret.call.toTs),
        computeSchedule(ret.call.fromTs, ret.call.toTs,
                        ret.call.consumptionEstimates, ret.call.startSoc))

InWindow(ts) == ts >= ret.call.fromTs /\ ts < ret.call.toTs

\* C3: replacing the schedule of a window is atomic: after any run, also one
\* in which a storage operation failed, the stored rows of [from, to) are
\* either exactly the previous rows or exactly the complete new schedule.
C3_AtomicReplace ==
    ret.status # "none" =>
        \/ \A ts \in Ts : InWindow(ts) => schedule[ts] = prevSchedule[ts]
        \/ \A ts \in Ts : InWindow(ts) => schedule[ts] = NewScheduleTable[ts]

\* The stored price slots of the window of the last run.
PriceSlotsInWindow == {ts \in Ts : InWindow(ts) /\ prices[ts] # Null}

\* C16: after a run that returned, the returned schedule and the stored rows
\* of [from, to) each hold exactly one row for every stored price slot of the
\* window and no other row, and the stored rows outside it are as before.
C16_OneRowPerPriceSlot ==
    Returned =>
        /\ \A ts \in PriceSlotsInWindow :
              Cardinality({i \in DOMAIN Rows : Rows[i].slot_ts = ts}) = 1
        /\ \A i \in DOMAIN Rows : Rows[i].slot_ts \in PriceSlotsInWindow
        /\ \A ts \in Ts :
              InWindow(ts) =>
                 /\ schedule[ts] # Null <=> ts \in PriceSlotsInWindow
                 /\ schedule[ts] # Null => schedule[ts][1].slot_ts = ts
        /\ \A ts \in Ts : ~InWindow(ts) => schedule[ts] = prevSchedule[ts]

\* C16 witness: a second run, over a window that starts after the first
\* stored row, has returned a schedule and that row is still stored.
C16_Witness ==
    /\ Returned
    /\ runs = 2
    /\ Rows # <<>>
    /\ ret.call.fromTs = 1
    /\ schedule[0] # Null
    /\ prices[0] # Null

(***************************************************************************)
(* Properties of the orchestrator.                                         *)
(***************************************************************************)
\* The driver operations that write to the inverter.
WritingOps == {"applySchedule", "resetToDefault"}

\* The quarter-hour handler was called at this cron instant and has returned.
QuarterHandlerReturned ==
    /\ ticks >= 1
    /\ cronMatches("quarter", clock)
    /\ "quarter" \notin due
    /\ hpc.quarter = "idle"

\* C4: within a quarter-hour tick without data_collection_only, the execute
\* run starts only once the snapshot run has finished and the battery replan
\* starts only once the execute run has finished, so the replan's live-SOC
\* read and optimizer run come after execute's command and after the snapshot
\* write; and when the handler has returned without a rejected run, all three
\* have run.
C4_QuarterSequential ==
    ~inverter.data_collection_only =>
        /\ pc["q_execute"] # "idle" => pc["q_snapshot"] = "done"
        /\ pc["q_battery"] # "idle" =>
              pc["q_snapshot"] = "done" /\ pc["q_execute"] = "done"
        /\ (QuarterHandlerReturned /\ escaped \cap QuarterRuns = {}) =>
              \A r \in QuarterRuns : pc[r] = "done"

\* C4 witness: the replan of a tick is suspended at its live-SOC read, after
\* the tick's snapshot was stored and its execute run applied the schedule.
C4_Witness ==
    /\ ~inverter.data_collection_only
    /\ pc["q_battery"] = "getState"
    /\ res["q_snapshot"] = "ok"
    /\ res["q_execute"] = "ok"

\* C5: with data_collection_only set, a quarter-hour tick runs only the
\* snapshot pipeline, no execute run is ever started, at startup or at any
\* tick, and neither applySchedule nor resetToDefault is ever called.
C5_DataCollectionOnly ==
    inverter.data_collection_only =>
        /\ \A r \in RunsOf("execute") : pc[r] = "idle"
        /\ pc["q_battery"] = "idle"
        /\ driverCalls \cap WritingOps = {}

\* C5 witness: with data_collection_only set and a driver configured, startup
\* is over and a quarter-hour handler has stored its snapshot and returned.
C5_Witness ==
    /\ inverter.data_collection_only
    /\ getDriver # Null
    /\ hpc.startup = "done"
    /\ QuarterHandlerReturned
    /\ res["q_snapshot"] = "ok"

\* C6: at no moment are two pipeline runs that were started by different
\* cron entries both in progress.
C6_NoOverlapAcrossEntries ==
    \A r1 \in CronRuns \cup QuarterRuns :
        \A r2 \in CronRuns \cup QuarterRuns :
            Entry(r1) # Entry(r2) => ~(InProgress(r1) /\ InProgress(r2))

\* C8: no pipeline run lets an error leave its pipeline function, whichever
\* operation fails, the ledger write included.
C8_NoErrorEscapes == escaped = {}

\* C9: an execute run in which an error was raised attempts resetToDefault
\* exactly once, whether or not the attempt succeeds, and an execute run
\* without an error never attempts it.
C9_ResetExactlyOnce ==
    \A r \in RunsOf("execute") :
        /\ Len(resets[r]) <= 1
        /\ res[r] # "error" => resets[r] = <<>>
        /\ pc[r] = "resetToDefault" => res[r] = "error" /\ resets[r] = <<>>
        /\ (pc[r] = "done" /\ res[r] = "error") => Len(resets[r]) = 1

\* C9 witness: an execute run has ended after an error and one failed
\* resetToDefault attempt.
C9_Witness ==
    \E r \in RunsOf("execute") :
        /\ pc[r] = "done"
        /\ res[r] = "error"
        /\ resets[r] = <<"failed">>

\* C10: a run that has ended, having succeeded or failed, has upserted its
\* pipeline's ledger row with that status (runs that returned early, and runs
\* whose ledger write itself failed, are left aside).
C10_LedgerEveryRun ==
    \A r \in RunIds :
        (pc[r] = "done" /\ res[r] # "none" /\ r \notin escaped) =>
            logged[r] = res[r]

(***************************************************************************)
(* Properties of the driver.                                               *)
(***************************************************************************)
\* A register read of the caller has been sent on an open connection and has
\* not settled yet.
InFlight(c) == dcall[c].pc = "reading" /\ conns[dcall[c].conn] = "open"

\* C7: at most one Modbus operation is in flight at any time, however the
\* driver calls of the pipeline runs interleave.
C7_OneOperationInFlight == Cardinality({c \in DrvCallers : InFlight(c)}) <= 1

\* C14: a driver call that fails leaves the module without a client and
\* every connection closed, the caller gets the error in that same step with
\* no new connection attempt made for it, and a call made while there is no
\* client starts by connecting a connection never used before.
C14_FailureDestroysConnection ==
    [][/\ \A c \in DrvCallers :
             (dcall[c].pc # "idle" /\ dcall'[c].last = "error") =>
                 /\ client' = Null
                 /\ dcall'[c].pc = "idle"
                 /\ \A id \in ConnIds : conns'[id] # "open"
                 /\ \A id \in ConnIds : conns'[id] = "connecting" => conns[id] = "connecting"
       /\ \A c \in DrvCallers :
             (dcall[c].pc = "idle" /\ dcall'[c].pc # "idle" /\ client = Null) =>
                 /\ dcall'[c].pc = "connecting"
                 /\ conns[dcall'[c].conn] = "unused"
                 /\ conns'[dcall'[c].conn] = "connecting"
                 /\ client' = Some(dcall'[c].conn)]_vars

\* C14 witness: one caller's call has failed and the first connection is
\* closed; the other caller reads on the second connection.
C14_Witness ==
    \E c, d \in DrvCallers :
        /\ dcall[c].pc = "idle" /\ dcall[c].last = "error"
        /\ conns[1] = "closed"
        /\ dcall[d].pc = "reading" /\ dcall[d].conn = 2
        /\ conns[2] = "open" /\ client = Some(2)

(***************************************************************************)
(* Properties of the driver's commands.                                    *)
(***************************************************************************)
\* The last command was applySchedule on a non-empty slot list.
AppliedSlots == dlast.op = "applySchedule" /\ dlast.slots # <<>>

\* The action of the slot the last applySchedule call took as current.
CurrentAction ==
    LET i == CHOOSE j \in DOMAIN dlast.slots : dlast.slots[j].slot_ts = dlast.current[1]
    IN  dlast.slots[i].action

\* The SOC floor the contract asks for: charge_soc (default 90) for a
\* charging slot, discharge_soc (default 20) for a discharging slot, the SOC
\* read for an idle slot, brought into 13..100.
ContractTarget ==
    LET a == CurrentAction
        raw == IF a \in {"charge_grid", "charge_solar"}
               THEN (IF drvCfg.charge_soc = Null THEN 90 ELSE drvCfg.charge_soc[1])
               ELSE IF a \in {"discharge", "sell"}
               THEN (IF drvCfg.discharge_soc = Null THEN 20 ELSE drvCfg.discharge_soc[1])
               ELSE dlast.soc
    IN  IF raw < 13 THEN 13 ELSE IF raw > 100 THEN 100 ELSE raw

NowLocal == localTs(dclock.date, dclock.utcOffset)

\* The stored slots whose key is <= now, now in the local time of the keys.
StartedSlots == {ts \in Ts : schedule[ts] # Null /\ tsMinutes(ts) <= NowLocal}

\* C13: the slot an execute run translates into the setpoint is the latest
\* stored slot with slot_ts <= now (local time), and the first stored slot
\* only when there is no such slot.
C13_ActiveSlotApplied ==
    (AppliedSlots /\ dlast.current # Null) =>
        IF StartedSlots # {}
        THEN \A ts \in StartedSlots : ts <= dlast.current[1] /\ dlast.current[1] \in StartedSlots
        ELSE \A ts \in Ts : schedule[ts] # Null => dlast.current[1] <= ts


(***************************************************************************)
(* Properties of the external fetches.                                     *)
(***************************************************************************)
\* The requests of the current run made for one external call.
RequestsOf(call) == SelectSeq(flog, LAMBDA e : e[1] = call)

\* C15: within one pipeline run each external call is attempted at most
\* once; a failed request is not repeated inside the run.
C15_OneAttemptPerRun ==
    \A call \in ExternalCalls : Len(RequestsOf(call)) <= 1


(***************************************************************************)
(* Properties of the learning loop.                                        *)
(***************************************************************************)
\* The stored rows of solar_readings.
StoredRows == {readings[ts][1] : ts \in {k \in ReadingKeys : readings[k] # Null}}

\* C17: every reading with a stored correction has an actual and a forecast
\* stored, forecast > 0, correction >= 0 and correction = actual / forecast.
C17_CorrectionIsRatio ==
    \A row \in StoredRows :
        row.correction # Null =>
            /\ row.prod_actual # Null
            /\ row.prod_forecast # Null
            /\ RPos(row.prod_forecast[1])
            /\ RLe(I2R(0), row.correction[1])
            /\ row.correction[1] = RDiv(row.prod_actual[1], row.prod_forecast[1])

\* C18: a learner run that directly follows a learner run changes no
\* reading and no matrix cell.
C18_LearnerIdempotent ==
    [][lop' = "learn_again" => (readings' = readings /\ matrix' = matrix)]_vars

\* C18 witness: the learner has run twice in a row after learning a sample.
C18_Witness ==
    /\ lop = "learn_again"
    /\ \E c \in MatrixCells : matrix[c].sample_count > 0
    /\ \E row \in StoredRows : row.correction # Null

\* C19: every matrix cell has total_weight >= 0 and sample_count >= 0, and a
\* cell with sample_count 0 has total_weight 0 and correction_avg 1.
C19_MatrixCellInvariant ==
    \A c \in MatrixCells :
        /\ RLe(I2R(0), matrix[c].total_weight)
        /\ matrix[c].sample_count >= 0
        /\ matrix[c].sample_count = 0 =>
              (matrix[c].total_weight = I2R(0) /\ matrix[c].correction_avg = I2R(1))

\* C19 witness: after learner runs one cell holds two samples and another
\* is still as seeded.
C19_Witness ==
    /\ \E c \in MatrixCells : matrix[c].sample_count = 2 /\ RPos(matrix[c].total_weight)
    /\ \E c \in MatrixCells : matrix[c].sample_count = 0

\* C20: a smoother run leaves every matrix cell as it was; a run of any
\* other pipeline leaves every smoothed cell as it was, and unless it is the
\* learner, every matrix cell too.
C20_SoleWriters ==
    [][/\ lop' = "smooth" => matrix' = matrix
       /\ lop' # "smooth" => smooth' = smooth
       /\ lop' \notin {"learn", "learn_again"} => matrix' = matrix]_vars

\* C20 witness: the smoother has written a smoothed cell from a learned
\* correction, with a learned matrix cell in the table.
C20_Witness ==
    /\ lop = "smooth"
    /\ \E c \in SmoothCells : smooth[c] # Null
    /\ \E c \in MatrixCells : matrix[c].sample_count > 0


(***************************************************************************)
(* Properties of the health endpoint.                                      *)
(***************************************************************************)
\* A row is fresh: its last run is no older than 1.5 times the interval.
Fresh(name) ==
    /\ hrows[name] # Null
    /\ 2 * (hnow - hrows[name][1].last_run_ts) <= 3 * 60 * PIPELINE_INTERVALS(name)

\* C21: GET /health answers 200 exactly when every pipeline has a ledger row
\* whose last status is ok and whose last run is no older than 1.5 times the
\* pipeline's expected interval, and 503 otherwise.
C21_HealthExactlyWhenFresh ==
    hres # Null =>
        /\ hres[1].code \in {200, 503}
        /\ hres[1].code = 200 <=>
              \A name \in Pipelines :
                 Fresh(name) /\ hrows[name][1].last_status = "ok"


\* C22: in data-collection-only mode, once every pipeline the scheduler runs
\* has completed a run and no operation has failed, GET /health shows every
\* pipeline ok within its interval and answers ok.
C22_CollectionModeHealthy ==
    ( /\ inverter.data_collection_only
      /\ Quiescent
      /\ failures = 0
      /\ \A name \in ScheduledPipelines : ledger[name] = "ok" )
    => \A d \in RequestDelays :
          LET answer == health(getAllPipelineRuns, secondOfDay(clock) + d) IN
          /\ answer.code = 200
          /\ \A name \in Pipelines : answer.pipelines[name].ok


\* The runs of the startup block in the order of their calls; the first four
\* are the non-write pipelines.
StartupOrder == <<"s_fetch", "s_snapshot", "s_consumption", "s_battery1",
                  "s_execute", "s_battery2">>
Started(r) == pc[r] # "idle"

\* C23: at startup the non-write pipelines run one after another, each
\* starting only after the previous one has finished, and execute followed by
\* the replan starts only after them and only when data_collection_only is
\* unset.
C23_StartupSequential ==
    /\ \A i, j \in 1..Len(StartupOrder) :
          (i < j /\ Started(StartupOrder[j])) => pc[StartupOrder[i]] = "done"
    /\ (Started("s_execute") \/ Started("s_battery2")) => dispatchEnabled


\* The await after which batteryPipeline calls runOptimizer: the SOC read
\* when a driver is configured, else the consumption estimate.
awaitBeforeOptimizer == IF getDriver = Null THEN "estimateConsumption" ELSE "getState"

\* C24: every execute run of a quarter-hour tick that applied a command is
\* followed, in the same tick, by an optimizer run: the battery run the
\* handler starts after it ends in the step that calls runOptimizer, not
\* before.
C24_ReplanAfterExecute ==
    [][ ( /\ hpc.quarter = "battery"
          /\ pc["q_execute"] = "done"
          /\ res["q_execute"] = "ok"
          /\ InProgress("q_battery")
          /\ pc'["q_battery"] = "done" )
        => pc["q_battery"] = awaitBeforeOptimizer ]_vars


\* The step issues a register read of the caller: the caller passes its
\* throttle() and sends the read.
Issues(c) ==
    /\ dcall'[c].pc = "reading"
    /\ dcall[c].pc # "reading" \/ dcall'[c].left # dcall[c].left

\* C25: between the issue of two successive Modbus commands at least
\* CMD_INTERVAL_MS elapses, however the driver calls interleave (lastCmd is
\* the moment the previous command was issued).
C25_CommandGap ==
    [][ (\E c \in DrvCallers : Issues(c)) => now - lastCmd >= CMD_INTERVAL_MS ]_vars


(***************************************************************************)
(* Properties of the recency bias.                                         *)
(***************************************************************************)
\* The accumulated sample weight of the window, and the weighted mean of
\* actual / forecast over it.
RECURSIVE WindowWeight(_)
WindowWeight(i) ==
    IF i > Len(brows) THEN I2R(0)
    ELSE RAdd(Rat(brows[i].irr_forecast, brows[i].irr_forecast + WEIGHT_K),
              WindowWeight(i + 1))
RECURSIVE WindowResidual(_)
WindowResidual(i) ==
    IF i > Len(brows) THEN I2R(0)
    ELSE RAdd(RMul(RDiv(brows[i].prod_actual, brows[i].prod_forecast),
                   Rat(brows[i].irr_forecast, brows[i].irr_forecast + WEIGHT_K)),
              WindowResidual(i + 1))
ThresholdMet == RLe(I2R(bcfg.min_samples), WindowWeight(1))
RawBias == RDiv(WindowResidual(1), WindowWeight(1))

\* C27: the recency bias is exactly 1 when the accumulated sample weight is
\* below min_samples; otherwise it lies in [clamp_min, clamp_max], equals the
\* raw value when that lies in the interval, and a raw value of 3 is applied
\* as 2 with the default clamp.
C27_BiasClamped ==
    bias # Null =>
        IF ~ThresholdMet THEN bias[1] = I2R(1)
        ELSE /\ RLe(bcfg.clamp_min, bias[1])
             /\ RLe(bias[1], bcfg.clamp_max)
             /\ (RLe(bcfg.clamp_min, RawBias) /\ RLe(RawBias, bcfg.clamp_max))
                   => bias[1] = RawBias
             /\ RawBias = I2R(3) => bias[1] = I2R(2)

\* The threshold is met by a window in which every actual is three times
\* its forecast, and the bias applied is 2.
C27_Witness ==
    /\ bias # Null
    /\ ThresholdMet
    /\ RawBias = I2R(3)
    /\ bias[1] = I2R(2)


(***************************************************************************)
(* Properties of the forecast model.                                       *)
(***************************************************************************)
\* The step gives the reading its forecast.
Forecasts(ts) ==
    /\ readings[ts] = Null \/ readings[ts][1].prod_forecast = Null
    /\ readings'[ts] # Null
    /\ readings'[ts][1].prod_forecast # Null

\* C26: a run of the model that forecasts a reading stores, with the
\* forecast and the confidence, the combined cell correction it applied.
C26_CorrectionPersisted ==
    [][ \A ts \in ReadingKeys :
           Forecasts(ts) =>
              /\ readings'[ts][1].confidence # Null
              /\ readings'[ts][1].correction # Null
              /\ \E g \in GeoCorrections :
                    readings'[ts][1].correction[1] =
                       appliedCorrection(readings', matrix, ts, g) ]_vars


\* C28: every stored production forecast and every stored actual production
\* is >= 0, whatever pipelines have run, actuals derived across a reset of
\* the daily counter included.
C28_NonNegative ==
    \A row \in StoredRows :
        /\ row.prod_forecast # Null => RLe(I2R(0), row.prod_forecast[1])
        /\ row.prod_actual # Null => RLe(I2R(0), row.prod_actual[1])

\* A consumption run has stored an actual on a reading that has a forecast.
C28_Witness ==
    /\ lop = "consumption"
    /\ \E row \in StoredRows :
          /\ row.prod_forecast # Null
          /\ RPos(row.prod_forecast[1])
          /\ row.prod_actual # Null
          /\ RPos(row.prod_actual[1])


(***************************************************************************)
(* Properties of the optimizer's treatment of solar surplus and of flat    *)
(* prices.                                                                 *)
(***************************************************************************)
\* A row of the returned schedule, its net production and what step 5
\* would give a surplus slot.
Net(row) == row.solar_watts - row.consumption_watts
SurplusWatts(row) ==
    IF Net(row) < cfg.max_charge_w THEN Net(row) ELSE cfg.max_charge_w
SurplusRows == {i \in DOMAIN ret.schedule : Net(ret.schedule[i]) > 0}
FullTenths == cfg.max_soc * 10

\* C29 as stated: a slot whose solar forecast exceeds its consumption is
\* never discharge or charge_grid, and it is charge_solar at
\* min(net, max_charge_w).
C29_SurplusChargesSolar ==
    Returned =>
        \A i \in SurplusRows :
            /\ ret.schedule[i].action = "charge_solar"
            /\ ret.schedule[i].watts = SurplusWatts(ret.schedule[i])

\* C29 amended: a slot whose solar forecast exceeds its consumption is never
\* discharge or charge_grid, whatever its price.  Step 5 makes it
\* charge_solar at min(net, max_charge_w); the forward pass keeps that while
\* the battery has room for the slot's energy, lowers the watts to the room
\* left when there is less (the slot then ends at max_soc), and makes the
\* slot sell or idle when the battery is already at max_soc.
C29_SurplusNeverGridOrDischarge ==
    Returned =>
        LET c == ret.call
            pre == assignActions(buildSlots(c.fromTs, c.toTs, c.consumptionEstimates))
        IN  \A i \in SurplusRows :
              LET row == ret.schedule[i]
              IN  /\ pre[i].action = "charge_solar"
                  /\ pre[i].watts = SurplusWatts(row)
                  /\ row.action \in {"charge_solar", "sell", "idle"}
                  /\ row.action = "charge_solar" =>
                        /\ row.watts <= SurplusWatts(row)
                        /\ row.watts < SurplusWatts(row) => row.soc_end = FullTenths
                  /\ row.action # "charge_solar" =>
                        /\ row.soc_start = FullTenths
                        /\ row.soc_end = FullTenths

\* A surplus slot at the highest price of the window is charge_solar at
\* min(net, max_charge_w) while another slot of the schedule discharges.
C29_Witness ==
    /\ Returned
    /\ \E i \in SurplusRows :
          /\ ret.schedule[i].action = "charge_solar"
          /\ ret.schedule[i].watts = SurplusWatts(ret.schedule[i])
          /\ \A j \in DOMAIN ret.schedule :
                ret.schedule[j].price_kwh <= ret.schedule[i].price_kwh
          /\ \E j \in DOMAIN ret.schedule :
                /\ ret.schedule[j].action = "discharge"
                /\ ret.schedule[j].price_kwh < ret.schedule[i].price_kwh


\* The returned schedule has at least two slots and one spot price.
FlatPrices ==
    /\ Returned
    /\ Len(ret.schedule) >= 2
    /\ \A i, j \in DOMAIN ret.schedule :
          ret.schedule[i].price_kwh = ret.schedule[j].price_kwh
\* buy_price of a row: spot + transfer_import_kwh + energy_tax_kwh.
BuyPrice(row) == row.price_kwh + cfg.transfer_import_kwh + cfg.energy_tax_kwh

C31_FloorWritesInRange ==
    \A i \in DOMAIN dlast.sent :
        dlast.sent[i].reg = LOAD_FIRST_STOP_SOC =>
            dlast.sent[i].value \in 13 .. 100

(***************************************************************************)
(* Properties of the forward pass: energy, sell slots and the pairing.     *)
(***************************************************************************)
\* The energy a row's final action and reported watts move into the battery
\* over its quarter hour, in Wh (negative: out of it).
ImpliedWh(row) ==
    CASE row.action = "charge_grid" ->
           RMul(RMul(I2R(row.watts), <<1, 4>>), cfg.efficiency)
      [] row.action = "charge_solar" -> RMul(I2R(row.watts), <<1, 4>>)
      [] row.action = "discharge" -> RSub(I2R(0), RMul(I2R(row.watts), <<1, 4>>))
      [] OTHER -> I2R(0)
\* The energy the recorded SOC change stands for, in Wh.
RecordedWh(row) == Rat((row.soc_end - row.soc_start) * capacityWh, 1000)
\* What rounding may hide: half a tenth of a percent at each end of the
\* slot, and half a watt over a quarter hour.
RoundingWh == RAdd(Rat(capacityWh, 1000), <<1, 8>>)
WithinRounding(a, b) ==
    /\ RLe(RSub(a, b), RoundingWh)
    /\ RLe(RSub(b, a), RoundingWh)

\* C32: for every slot of a produced schedule the SOC change equals the
\* energy of its final action and reported watts within rounding:
\* charge_grid +watts x 0.25 h x efficiency, charge_solar +watts x 0.25 h,
\* discharge -watts x 0.25 h; an idle slot has watts = 0 and
\* soc_end = soc_start.
C32_SocChangeMatchesEnergy ==
    Returned =>
        \A i \in DOMAIN Rows :
            /\ Rows[i].action \in {"charge_grid", "charge_solar", "discharge"} =>
                  WithinRounding(RecordedWh(Rows[i]), ImpliedWh(Rows[i]))
            /\ Rows[i].action = "idle" =>
                  (Rows[i].watts = 0 /\ Rows[i].soc_end = Rows[i].soc_start)

\* A schedule with a grid charge that raised the SOC, a discharge that
\* lowered it, and a surplus slot the forward pass made idle.
C32_Witness ==
    /\ Returned
    /\ \E i \in DOMAIN Rows :
          Rows[i].action = "charge_grid" /\ Rows[i].soc_end > Rows[i].soc_start
    /\ \E i \in DOMAIN Rows :
          Rows[i].action = "discharge" /\ Rows[i].soc_end < Rows[i].soc_start
    /\ \E i \in DOMAIN Rows :
          /\ Rows[i].action = "idle"
          /\ Rows[i].solar_watts > Rows[i].consumption_watts

\* The slot a stored row stands for, with the prices step 2 derives.
FinalSlot(row) ==
    [action |-> row.action, watts |-> row.watts,
     solar_watts |-> row.solar_watts, consumption_watts |-> row.consumption_watts,
     buy_price |-> BuyPrice(row),
     sell_price |-> IF cfg.sell_enabled
                    THEN RSub(RMul(I2R(row.price_kwh), cfg.sell_price_factor),
                              I2R(cfg.transfer_export_kwh))
                    ELSE I2R(0)]
FinalSlots == [i \in DOMAIN Rows |-> FinalSlot(Rows[i])]
\* The slots of the returned run before the forward pass.
PrePassSlots ==
    assignActions(buildSlots(ret.call.fromTs, ret.call.toTs,
                             ret.call.consumptionEstimates))

\* C33: the savings summary is the one computed from every slot's final
\* action and watts, as returned in the schedule: a slot the forward pass
\* made idle costs its uncovered consumption at the buy price and nothing
\* else, and a slot whose watts were reduced counts with the reduced watts.
C33_SummaryFromFinalSlots ==
    (Returned /\ Rows # <<>>) =>
        /\ ret.summary = Some(savingsSummary(FinalSlots))
        /\ \A i \in DOMAIN Rows :
              Rows[i].action = "idle" =>
                  slotCostWith(FinalSlots[i]) = slotCostWithout(FinalSlots[i])

\* A run whose forward pass made a paired slot idle and reduced the watts of
\* another slot, and whose summary differs from the pre-pass one.
C33_Witness ==
    /\ Returned
    /\ Rows # <<>>
    /\ \E i \in DOMAIN Rows :
          /\ PrePassSlots[i].action \in {"charge_grid", "discharge"}
          /\ Rows[i].action = "idle"
    /\ \E i \in DOMAIN Rows :
          /\ Rows[i].action = PrePassSlots[i].action
          /\ Rows[i].action # "idle"
          /\ Rows[i].watts < PrePassSlots[i].watts
    /\ ret.summary # Some(savingsSummary(PrePassSlots))

\* The pairs the returned run recorded, and the energy they charge.
RunPairs ==
    greedyPairs(buildSlots(ret.call.fromTs, ret.call.toTs,
                           ret.call.consumptionEstimates))
RECURSIVE sumWh(_, _)
sumWh(list, i) == IF i = 0 THEN I2R(0) ELSE RAdd(sumWh(list, i - 1), list[i].wh)

\* C34: the charge energy of all recorded pairs together is at most the
\* usable capacity (max_soc - min_soc) x capacity.
C34_PairsWithinCapacity ==
    (Returned /\ Rows # <<>>) =>
        RLe(sumWh(RunPairs.chargeSlots, Len(RunPairs.chargeSlots)),
            RSub(maxSocWh, minSocWh))

(***************************************************************************)
(* Properties of the learning loop: samples folded and forecasts kept.     *)
(***************************************************************************)
\* The readings of a matrix cell whose correction has been stored.
CorrectedReadings(cell) ==
    {ts \in ReadingKeys : /\ readings[ts] # Null
                          /\ readings[ts][1].correction # Null
                          /\ cellOf(ts) = cell}

\* C35: every matrix cell's sample count equals the number of readings of
\* its (month, day, hour) whose correction has been stored, after any runs
\* of the pipelines, learner runs cut short by a storage error included.
C35_FoldedExactlyOnce ==
    \A cell \in MatrixCells :
        matrix[cell].sample_count = Cardinality(CorrectedReadings(cell))

\* C36: a fetch/model run leaves every production forecast that is already
\* stored as it is, also when it updates the reading's irradiance, and after
\* it a further model run changes nothing.
C36_ForecastWrittenOnce ==
    [][lop' = "fetch" =>
          /\ \A ts \in ReadingKeys :
                (readings[ts] # Null /\ readings[ts][1].prod_forecast # Null) =>
                    /\ readings'[ts] # Null
                    /\ readings'[ts][1].prod_forecast = readings[ts][1].prod_forecast
          /\ \A geoCorrection \in GeoCorrections :
                runModel(readings', matrix', geoCorrection) = readings']_vars

\* A fetch has replaced the irradiance of a reading by 0 and the reading
\* still has the positive forecast made from the earlier irradiance.
C36_Witness ==
    /\ lop = "fetch"
    /\ \E ts \in ReadingKeys :
          /\ readings[ts] # Null
          /\ readings[ts][1].irr_forecast = Some(0)
          /\ readings[ts][1].prod_forecast # Null
          /\ RPos(readings[ts][1].prod_forecast[1])

(***************************************************************************)
(* Properties of an optimizer run that finds no prices.                    *)
(***************************************************************************)
\* C37: a run over a window [from, to) without a stored price slot returns
\* an empty schedule and no summary, and leaves every stored schedule row
\* as it was.
C37_NoPricesNoChange ==
    [][(/\ runs' = runs + 1
        /\ ret'.status = "returned"
        /\ getPricesForRange(ret'.call.fromTs, ret'.call.toTs) = <<>>) =>
           /\ ret'.schedule = <<>>
           /\ ret'.summary = Null
           /\ schedule' = schedule]_vars

\* A second run found no price in its window and returned empty-handed,
\* and the row an earlier run stored is still there.
C37_Witness ==
    /\ runs = 2
    /\ Returned
    /\ getPricesForRange(ret.call.fromTs, ret.call.toTs) = <<>>
    /\ ret.schedule = <<>>
    /\ ret.summary = Null
    /\ \E ts \in Ts : schedule[ts] # Null

\* C38: a slot's final action is sell only if step 5 made it charge_solar,
\* the forward pass reached it with the battery at max_soc, selling is
\* enabled and its sell price is > 0; the slot leaves the SOC unchanged and
\* its watts are min(net, max_discharge_w).
C38_SellOnlyWhenFull ==
    (Returned /\ Rows # <<>>) =>
        \A i \in DOMAIN Rows :
            Rows[i].action = "sell" =>
                /\ PrePassSlots[i].action = "charge_solar"
                /\ Rows[i].soc_start = FullTenths
                /\ Rows[i].soc_end = Rows[i].soc_start
                /\ cfg.sell_enabled
                /\ RPos(FinalSlots[i].sell_price)
                /\ Rows[i].watts =
                      IF Net(Rows[i]) < cfg.max_discharge_w
                      THEN Net(Rows[i]) ELSE cfg.max_discharge_w

\* A schedule in which a surplus slot found the battery full and was sold.
C38_Witness ==
    /\ Returned
    /\ \E i \in DOMAIN Rows : Rows[i].action = "sell" /\ Rows[i].watts > 0

(***************************************************************************)
(* Properties of the telemetry.                                            *)
(***************************************************************************)
\* C39: for all non-negative solar, consumption and grid-import readings
\* the grid_export_w that getMetrics derives is 0.
C39_GridExportZero ==
    metrics # Null => metrics[1].grid_export_w = I2R(0)

\* getMetrics has returned for a reading with more solar than consumption,
\* no grid import, and so a charging battery.
C39_Witness ==
    /\ metrics # Null
    /\ RLt(metrics[1].consumption_w, metrics[1].solar_w)
    /\ metrics[1].grid_import_w = I2R(0)
    /\ RLt(metrics[1].battery_w, I2R(0))

\* The slots the returned run paired, by role.
ChargeIdx == {RunPairs.chargeSlots[k].idx : k \in DOMAIN RunPairs.chargeSlots}
DischargeIdx == {RunPairs.dischargeSlots[k].idx : k \in DOMAIN RunPairs.dischargeSlots}
RunSlots ==
    buildSlots(ret.call.fromTs, ret.call.toTs, ret.call.consumptionEstimates)

\* C40: no slot is the charge slot of one pair and the discharge slot of the
\* same or another pair, each slot is recorded at most once per role, and
\* applying the discharge assignments before the charge assignments gives
\* the same actions as the order the optimizer uses.
C40_OnePairPerSlot ==
    (Returned /\ Rows # <<>>) =>
        /\ ChargeIdx \cap DischargeIdx = {}
        /\ Cardinality(ChargeIdx) = Len(RunPairs.chargeSlots)
        /\ Cardinality(DischargeIdx) = Len(RunPairs.dischargeSlots)
        /\ applyPairs(applyPairs(RunSlots, RunPairs.chargeSlots, "charge_grid"),
                      RunPairs.dischargeSlots, "discharge")
             = applyPairs(applyPairs(RunSlots, RunPairs.dischargeSlots, "discharge"),
                          RunPairs.chargeSlots, "charge_grid")

====
